---- MODULE Spec2Model ----
(***************************************************************************)
(* Model of the huequitas backend: the core service (restaurants, reviews  *)
(* with the aggregate-rating recompute, likes), the chat service (rooms,   *)
(* history, broadcast) and the auth service (password reset, bearer        *)
(* tokens, profile).  Every request handler is a sequence of               *)
(* steps; a handler is suspended at each store call (await), so one action *)
(* is "the pending store call executes and the handler runs on to its next *)
(* store call or to its response".  The chat handlers share the sockets'   *)
(* rooms, so there the store call and the continuation that emits are two  *)
(* steps.                                                                  *)
(***************************************************************************)
EXTENDS Integers, Sequences, FiniteSets, TLC

\* ------------------------------------------------------------------ bounds
MaxRestaurants == 2     \* restaurant ids ever created
MaxReviews     == 3     \* review ids ever created
MaxLikes       == 3     \* like ids ever created
MaxInFlight    == 2     \* request handlers that may be suspended at once
MaxConns       == 2     \* sockets
MaxJoins       == 2     \* join-room events
MaxSends       == 2     \* send-message events
MaxCount       == 40    \* reviews of one restaurant in a recompute taken alone

\* ------------------------------------------------------- values and inputs
UserIds       == {1, 2}                 \* userId claims of valid tokens
RestaurantIds == 1..MaxRestaurants
ReviewIds     == 1..MaxReviews
LikeIds       == 1..MaxLikes
Slots         == 1..MaxInFlight

Absent    == 0      \* id / field not sent (undefined)
Malformed == -1     \* id that is not 24 hex digits
NaN       == -1     \* rating value NaN, in the hundredths encoding
Unset     == -2     \* document path not assigned by the handler

\* ratings are sent as numbers, encoded in tenths (25 is 2.5); Absent is undefined
RatingInputs  == {Absent, 10, 25, 30, 50, 60}
\* a comment is modelled by its trimmed length; Absent is undefined or ""
CommentInputs == {Absent, 10, 251}
\* an image is Absent, a well-formed small data URI (1) or not a data URI (2)
ImageInputs   == {Absent, 1, 2}

MAX_COMMENT_LENGTH == 250

VARIABLES
  restaurants,       \* Restaurant collection: id -> [rating, totalRatings]
  reviews,           \* Review collection: id -> [restaurantId, userId, userName, rating, comment, image]
  likes,             \* Like collection: id -> [restaurantId, userId]
  nextRestaurantId,  \* next fresh Restaurant _id
  nextReviewId,      \* next fresh Review _id
  nextLikeId,        \* next fresh Like _id
  req,               \* request handlers: slot -> locals, position and last response
  likeTrail,         \* the latest consecutive POST /like responses on one (user, restaurant)
  serial,            \* TRUE when the clients await each response before the next request
  wrote,             \* slot -> TRUE once the request in flight has changed a collection
  tally,             \* a recompute taken alone: the reviews found (sum, count) and the rating assigned
  \* chat service
  messages,          \* Message collection: id -> [room, createdAt, userId, userName, message]
  nextMessageId,     \* next fresh Message _id
  clock,             \* the latest value Date.now() returned
  connected,         \* the sockets that are connected
  joined,            \* socket -> the rooms it is in
  inbox,             \* socket -> the events the server emitted to it, in order
  task,              \* socket event handlers: slot -> locals and position
  lastIn,            \* the latest event a client sent
  joins,             \* join-room events received
  sends,             \* send-message events received
  \* auth service
  users,             \* User collection: id -> [email, password, name, preferences,
                     \*   isProfileComplete, resetCode, resetToken, resetTokenExpiry]
  areq,              \* auth request handlers: slot -> locals, position and last response
  now,               \* the latest value Date.now() returned in the auth service
  spent,             \* user -> the code its latest successful reset consumed, until a code is issued
  redeemed,          \* user -> successful resets since a code was last issued to it
  verified           \* user -> successful verify-reset-code lookups since a code was last issued to it

coreVars == <<restaurants, reviews, likes, nextRestaurantId, nextReviewId,
              nextLikeId, req, likeTrail, serial, wrote, tally>>
chatVars == <<messages, nextMessageId, clock, connected, joined, inbox, task,
              lastIn, joins, sends>>
authVars == <<users, areq, now, spent, redeemed, verified>>
vars == <<coreVars, chatVars, authVars>>

\* --------------------------------------------------------------- validators
\* mutant: the validator without the upper bound
validateRatingNoMax(rating) ==
  /\ rating # Absent
  /\ rating % 10 = 0
  /\ rating >= 10

validateRating(rating) ==
  /\ rating # Absent
  /\ rating % 10 = 0
  /\ rating >= 10
  /\ rating <= 50

validateReviewComment(comment) ==
  ~(comment # Absent /\ comment > MAX_COMMENT_LENGTH)

validateImageFile(image) ==
  image = Absent \/ image = 1

validateMongoId(id) ==
  id # Absent /\ id # Malformed

\* the error message of the first validation that fails, "" when all pass
ReviewBodyError(rating, comment, image) ==
  IF ~validateRating(rating) THEN "invalid rating"
  ELSE IF ~validateReviewComment(comment) THEN "comment too long"
  ELSE IF ~validateImageFile(image) THEN "invalid image"
  ELSE ""

\* --------------------------------------------------------- rating recompute
RECURSIVE SumRatings(_, _)
SumRatings(coll, ids) ==
  IF ids = {} THEN 0
  ELSE LET i == CHOOSE x \in ids : TRUE
       IN  coll[i].rating + SumRatings(coll, ids \ {i})

\* Review.find({ restaurantId })
ReviewsOf(rid) == {v \in DOMAIN reviews : reviews[v].restaurantId = rid}

RECURSIVE Gcd(_, _)
Gcd(a, b) == IF b = 0 THEN a ELSE Gcd(b, a % b)

\* numerators p for which the double nearest p/40 lies below p/40
HalfBelow40 ==
  {41, 43, 51, 53, 61, 63, 71, 73, 81, 87, 91, 97, 101, 107, 111, 117,
   121, 127, 131, 137, 141, 147, 151, 157, 167, 169, 177, 179, 187, 189,
   197, 199}

\* parseFloat((sum / count).toFixed(2)) in hundredths, for count < 200.
\* toFixed rounds the exact value of the double sum/count; when that double is
\* exactly halfway it takes the larger candidate.
ToFixed2(sum, count) ==
  IF count = 0 THEN NaN
  ELSE LET q == (100 * sum) \div count
           r == (100 * sum) % count
       IN  IF 2 * r > count THEN q + 1
           ELSE IF 2 * r < count THEN q
           ELSE LET g == Gcd(sum, count)
                    p == sum \div g
                    d == count \div g
                IN  IF d = 40 /\ p \in HalfBelow40 THEN q ELSE q + 1

\* no recompute taken alone
NoTally == [sum |-> 0, count |-> 0, rating |-> Unset]

\* the reviews Review.find can return for one restaurant, by their number and
\* the sum of their ratings (integers 1 to 5)
TallyInputs ==
  {[sum |-> m, count |-> n, rating |-> Unset] : n \in 1..MaxCount, m \in 1..(5 * MaxCount)}

\* reviews.reduce(...) / reviews.length and restaurant.rating = parseFloat(toFixed(2))
\* on the reviews found
Recompute ==
  /\ tally.count > 0 /\ tally.rating = Unset
  /\ tally' = [tally EXCEPT !.rating = ToFixed2(tally.sum, tally.count)]
  /\ UNCHANGED <<restaurants, reviews, likes, nextRestaurantId, nextReviewId,
                 nextLikeId, req, likeTrail, serial, wrote, chatVars, authVars>>

\* ------------------------------------------------------------------ records
NoDoc == [id |-> 0, rating |-> 0, totalRatings |-> 0]
NoRev == [restaurantId |-> 0, userId |-> 0, userName |-> 0, rating |-> 0, comment |-> 0,
          image |-> 0]

IdleReq ==
  [op |-> "none", pc |-> "idle", user |-> 0, rid |-> 0, vid |-> 0,
   rating |-> 0, comment |-> 0, image |-> 0,
   doc |-> NoDoc, setRating |-> Unset, setTotal |-> Unset,
   rev |-> NoRev, upd |-> NoRev, lid |-> 0,
   status |-> 0, liked |-> FALSE, msg |-> "", body |-> {}, removed |-> <<0, 0>>]

\* a request arriving: the handler's parameters
NewReq(op, user, rid, vid, rating, comment, image) ==
  [IdleReq EXCEPT !.op = op, !.pc = "start", !.user = user, !.rid = rid,
                  !.vid = vid, !.rating = rating, !.comment = comment,
                  !.image = image]

\* res.status(status).json(...): the handler ends, its locals are dropped
Done(r, status) ==
  [r EXCEPT !.pc = "done", !.status = status,
            !.rating = 0, !.comment = 0, !.image = 0,
            !.doc = NoDoc, !.setRating = Unset, !.setTotal = Unset,
            !.rev = NoRev, !.upd = NoRev, !.lid = 0]

Free(s) == req[s].pc \in {"idle", "done"}
InFlight == {s \in Slots : ~Free(s)}

\* new Restaurant({name, description, address, cuisine}): rating and
\* totalRatings take the schema defaults
NewRestaurant == [rating |-> 0, totalRatings |-> 0]


\* mongoose Document#save of a loaded Restaurant: only the paths whose assigned
\* value differs from the loaded one are written; a NaN rating fails the Number
\* cast; a document that is gone from the collection raises DocumentNotFoundError
SaveFails(r) ==
  \/ r.setRating = NaN
  \/ r.doc.id \notin DOMAIN restaurants

SavedRestaurant(r) ==
  [rating       |-> IF r.setRating # Unset /\ r.setRating # r.doc.rating
                    THEN r.setRating ELSE restaurants[r.doc.id].rating,
   totalRatings |-> IF r.setTotal # Unset /\ r.setTotal # r.doc.totalRatings
                    THEN r.setTotal ELSE restaurants[r.doc.id].totalRatings]

\* Restaurant.findById(id) as a local document
LoadDoc(id) ==
  [id |-> id, rating |-> restaurants[id].rating,
   totalRatings |-> restaurants[id].totalRatings]

\* the (restaurantId, userId) pairs that have a Like document
LikePairs == {<<likes[l].restaurantId, likes[l].userId>> : l \in DOMAIN likes}

\* Like.findOne({ restaurantId, userId })
LikesOf(rid, user) ==
  {l \in DOMAIN likes : likes[l].restaurantId = rid /\ likes[l].userId = user}

\* mutant: the index without the unique option
NoUniqueIndex(rid, user) == FALSE

\* likeSchema.index({ restaurantId: 1, userId: 1 }, { unique: true }): an insert
\* of a pair that is already stored is rejected with error code 11000
DuplicateKey(rid, user) == LikesOf(rid, user) # {}

\* ------------------------------------------------------- response history
\* likeTrail holds the responses of the latest POST /like requests that ran
\* back to back on one (user, restaurant) pair, with the Like pairs stored
\* before and after each; any other response clears it
TrailEntry(r, before, after) ==
  [user |-> r.user, rid |-> r.rid, liked |-> r.liked, before |-> before, after |-> after]

Observe(s) ==
  /\ UNCHANGED <<serial, tally, chatVars, authVars>>
  /\ wrote' = [wrote EXCEPT ![s] =
                 /\ req'[s].pc # "done"
                 /\ \/ wrote[s]
                    \/ <<restaurants, reviews, likes>>' # <<restaurants, reviews, likes>>]
  /\ likeTrail' =
       IF ~serial \/ req'[s].pc # "done" THEN likeTrail
       ELSE IF req'[s].op = "like" /\ req'[s].status = 200
       THEN LET e == TrailEntry(req'[s], LikePairs, LikePairs')
            IN  IF /\ likeTrail # <<>>
                   /\ likeTrail[Len(likeTrail)].user = e.user
                   /\ likeTrail[Len(likeTrail)].rid = e.rid
                THEN <<likeTrail[Len(likeTrail)], e>>
                ELSE <<e>>
       ELSE <<>>

\* a request is taken when its slot is free; serial clients send one at a time
Admit(s) ==
  /\ Free(s)
  /\ serial => (s = 1 /\ InFlight = {})


\* ================================================================ requests
\* POST /restaurants; new Restaurant(...) assigns the _id before the save
CreateRestaurantStart(s, in) ==
  /\ Admit(s)
  /\ nextRestaurantId <= MaxRestaurants
  /\ \E u \in in.users, name \in {Absent, 1} :
       LET r == NewReq("createRestaurant", u, 0, 0, 0, 0, 0)
       IN  IF name = Absent
           THEN /\ req' = [req EXCEPT ![s] = Done(r, 400)]
                /\ UNCHANGED nextRestaurantId
           ELSE /\ req' = [req EXCEPT ![s] =
                             [r EXCEPT !.pc = "saveRestaurant", !.rid = nextRestaurantId]]
                /\ nextRestaurantId' = nextRestaurantId + 1
  /\ UNCHANGED <<restaurants, reviews, likes, nextReviewId, nextLikeId>>
  /\ Observe(s)

CreateRestaurantSave(s) ==
  /\ req[s].op = "createRestaurant" /\ req[s].pc = "saveRestaurant"
  /\ restaurants' = [i \in DOMAIN restaurants \cup {req[s].rid} |->
                       IF i = req[s].rid THEN NewRestaurant ELSE restaurants[i]]
  /\ req' = [req EXCEPT ![s] = Done(@, 201)]
  /\ UNCHANGED <<reviews, likes, nextRestaurantId, nextReviewId, nextLikeId>>
  /\ Observe(s)

\* PUT /restaurants/:id: the body is any JSON object; of its paths the model
\* keeps rating and totalRatings
UpdateRestaurantStart(s, in) ==
  /\ Admit(s)
  /\ \E u \in in.users, rid \in in.rids, b \in in.bodies :
       req' = [req EXCEPT ![s] =
                 [NewReq("updateRestaurant", u, rid, 0, 0, 0, 0)
                    EXCEPT !.pc = "findAndUpdateRestaurant",
                           !.setRating = b.rating, !.setTotal = b.totalRatings]]
  /\ UNCHANGED <<restaurants, reviews, likes, nextRestaurantId, nextReviewId, nextLikeId>>
  /\ Observe(s)

\* an update that inserts the document it does not find, before the 404
UpdateRestaurantUpsert(s) ==
  /\ req[s].op = "updateRestaurant" /\ req[s].pc = "findAndUpdateRestaurant"
  /\ LET r == req[s] IN
       IF r.rid = Malformed
       THEN /\ req' = [req EXCEPT ![s] = Done(r, 500)]
            /\ UNCHANGED restaurants
       ELSE IF r.rid \notin DOMAIN restaurants
       THEN /\ req' = [req EXCEPT ![s] = Done(r, 404)]
            /\ restaurants' = [i \in DOMAIN restaurants \cup {r.rid} |->
                                 IF i = r.rid THEN NewRestaurant ELSE restaurants[i]]
       ELSE /\ restaurants' =
                 [restaurants EXCEPT ![r.rid] =
                    [rating       |-> IF r.setRating # Unset THEN r.setRating
                                      ELSE @.rating,
                     totalRatings |-> IF r.setTotal # Unset THEN r.setTotal
                                      ELSE @.totalRatings]]
            /\ req' = [req EXCEPT ![s] = Done(r, 200)]
  /\ UNCHANGED <<reviews, likes, nextRestaurantId, nextReviewId, nextLikeId>>
  /\ Observe(s)

\* Restaurant.findByIdAndUpdate(id, { ...req.body, updatedAt }): every path of
\* the body is set on the stored document
UpdateRestaurantUpdate(s) ==
  /\ req[s].op = "updateRestaurant" /\ req[s].pc = "findAndUpdateRestaurant"
  /\ LET r == req[s] IN
       IF r.rid = Malformed
       THEN /\ req' = [req EXCEPT ![s] = Done(r, 500)]
            /\ UNCHANGED restaurants
       ELSE IF r.rid \notin DOMAIN restaurants
       THEN /\ req' = [req EXCEPT ![s] = Done(r, 404)]
            /\ UNCHANGED restaurants
       ELSE /\ restaurants' =
                 [restaurants EXCEPT ![r.rid] =
                    [rating       |-> IF r.setRating # Unset THEN r.setRating
                                      ELSE @.rating,
                     totalRatings |-> IF r.setTotal # Unset THEN r.setTotal
                                      ELSE @.totalRatings]]
            /\ req' = [req EXCEPT ![s] = Done(r, 200)]
  /\ UNCHANGED <<reviews, likes, nextRestaurantId, nextReviewId, nextLikeId>>
  /\ Observe(s)

\* DELETE /restaurants/:id
DeleteRestaurantStart(s, in) ==
  /\ Admit(s)
  /\ \E u \in in.users, rid \in in.rids :
       req' = [req EXCEPT ![s] =
                 [NewReq("deleteRestaurant", u, rid, 0, 0, 0, 0)
                    EXCEPT !.pc = "findAndDeleteRestaurant"]]
  /\ UNCHANGED <<restaurants, reviews, likes, nextRestaurantId, nextReviewId, nextLikeId>>
  /\ Observe(s)

\* mutant: the cascade runs without the test for a restaurant that was not found
DeleteRestaurantFindNoCheck(s) ==
  /\ req[s].op = "deleteRestaurant" /\ req[s].pc = "findAndDeleteRestaurant"
  /\ LET r == req[s] IN
       IF r.rid = Malformed
       THEN /\ req' = [req EXCEPT ![s] = Done(r, 500)]
            /\ UNCHANGED restaurants
       ELSE /\ restaurants' = [i \in DOMAIN restaurants \ {r.rid} |-> restaurants[i]]
            /\ req' = [req EXCEPT ![s] = [r EXCEPT !.pc = "deleteReviews"]]
  /\ UNCHANGED <<reviews, likes, nextRestaurantId, nextReviewId, nextLikeId>>
  /\ Observe(s)

\* Restaurant.findByIdAndDelete(req.params.id) and the test of its result
DeleteRestaurantFind(s) ==
  /\ req[s].op = "deleteRestaurant" /\ req[s].pc = "findAndDeleteRestaurant"
  /\ LET r == req[s] IN
       IF r.rid = Malformed
       THEN /\ req' = [req EXCEPT ![s] = Done(r, 500)]
            /\ UNCHANGED restaurants
       ELSE IF r.rid \notin DOMAIN restaurants
       THEN /\ req' = [req EXCEPT ![s] = Done(r, 404)]
            /\ UNCHANGED restaurants
       ELSE /\ restaurants' = [i \in DOMAIN restaurants \ {r.rid} |-> restaurants[i]]
            /\ req' = [req EXCEPT ![s] = [r EXCEPT !.pc = "deleteReviews"]]
  /\ UNCHANGED <<reviews, likes, nextRestaurantId, nextReviewId, nextLikeId>>
  /\ Observe(s)

DeleteRestaurantReviews(s) ==
  /\ req[s].op = "deleteRestaurant" /\ req[s].pc = "deleteReviews"
  /\ reviews' = [v \in DOMAIN reviews \ ReviewsOf(req[s].rid) |-> reviews[v]]
  /\ req' = [req EXCEPT ![s] =
               [@ EXCEPT !.pc = "deleteLikes",
                         !.removed = <<Cardinality(ReviewsOf(req[s].rid)), 0>>]]
  /\ UNCHANGED <<restaurants, likes, nextRestaurantId, nextReviewId, nextLikeId>>
  /\ Observe(s)

\* mutant: the cascade stops after the reviews
DeleteRestaurantLikesKept(s) ==
  /\ req[s].op = "deleteRestaurant" /\ req[s].pc = "deleteLikes"
  /\ req' = [req EXCEPT ![s] = Done(@, 200)]
  /\ UNCHANGED <<restaurants, reviews, likes, nextRestaurantId, nextReviewId, nextLikeId>>
  /\ Observe(s)

DeleteRestaurantLikes(s) ==
  /\ req[s].op = "deleteRestaurant" /\ req[s].pc = "deleteLikes"
  /\ likes' = [l \in {k \in DOMAIN likes : likes[k].restaurantId # req[s].rid} |-> likes[l]]
  /\ req' = [req EXCEPT ![s] =
               Done([@ EXCEPT !.removed =
                       <<@[1], Cardinality({k \in DOMAIN likes : likes[k].restaurantId = req[s].rid})>>],
                    200)]
  /\ UNCHANGED <<restaurants, reviews, nextRestaurantId, nextReviewId, nextLikeId>>
  /\ Observe(s)


\* POST /reviews
PendingReviewIds ==
  Cardinality({t \in Slots : req[t].op = "createReview" /\ req[t].pc = "findRestaurant"})

CreateReviewStart(s, in) ==
  /\ Admit(s)
  /\ nextReviewId + PendingReviewIds <= MaxReviews
  /\ \E u \in in.users, rid \in in.rids,
        rating \in in.ratings, comment \in in.comments, image \in in.images :
       LET r == NewReq("createReview", u, rid, 0, rating, comment, image)
       IN  req' = [req EXCEPT ![s] =
                     IF ~validateMongoId(rid)
                     THEN Done([r EXCEPT !.msg = "invalid id"], 400)
                     ELSE IF ReviewBodyError(rating, comment, image) # ""
                     THEN Done([r EXCEPT !.msg = ReviewBodyError(rating, comment, image)], 400)
                     ELSE [r EXCEPT !.pc = "findRestaurant"]]
  /\ UNCHANGED <<restaurants, reviews, likes, nextRestaurantId, nextReviewId, nextLikeId>>
  /\ Observe(s)

\* Restaurant.findById, then new Review(...) which assigns the _id
CreateReviewFindRestaurant(s) ==
  /\ req[s].op = "createReview" /\ req[s].pc = "findRestaurant"
  /\ LET r == req[s] IN
       IF r.rid \notin DOMAIN restaurants
       THEN /\ req' = [req EXCEPT ![s] = Done(r, 404)]
            /\ UNCHANGED nextReviewId
       ELSE /\ req' = [req EXCEPT ![s] =
                         [r EXCEPT !.pc = "saveReview", !.doc = LoadDoc(r.rid),
                                   !.vid = nextReviewId,
                                   !.upd = [restaurantId |-> r.rid, userId |-> r.user,
                                            userName |-> r.user,
                                            rating |-> r.rating \div 10,
                                            comment |-> r.comment, image |-> r.image]]]
            /\ nextReviewId' = nextReviewId + 1
  /\ UNCHANGED <<restaurants, reviews, likes, nextRestaurantId, nextLikeId>>
  /\ Observe(s)

CreateReviewSave(s) ==
  /\ req[s].op = "createReview" /\ req[s].pc = "saveReview"
  /\ reviews' = [v \in DOMAIN reviews \cup {req[s].vid} |->
                   IF v = req[s].vid THEN req[s].upd ELSE reviews[v]]
  /\ req' = [req EXCEPT ![s] = [@ EXCEPT !.pc = "findReviews"]]
  /\ UNCHANGED <<restaurants, likes, nextRestaurantId, nextReviewId, nextLikeId>>
  /\ Observe(s)

\* Review.find({ restaurantId }), the mean, and the assignments to the loaded
\* restaurant document
CreateReviewRecompute(s) ==
  /\ req[s].op = "createReview" /\ req[s].pc = "findReviews"
  /\ LET found == ReviewsOf(req[s].rid) IN
       req' = [req EXCEPT ![s] =
                 [@ EXCEPT !.pc = "saveRestaurantDoc",
                           !.setRating = ToFixed2(SumRatings(reviews, found), Cardinality(found)),
                           !.setTotal = Cardinality(found)]]
  /\ UNCHANGED <<restaurants, reviews, likes, nextRestaurantId, nextReviewId, nextLikeId>>
  /\ Observe(s)

\* mutant: the save recomputes the aggregate from the reviews stored at the save
SaveRestaurantDocFresh(s, okStatus) ==
  /\ req[s].pc = "saveRestaurantDoc"
  /\ IF req[s].doc.id \notin DOMAIN restaurants
     THEN /\ req' = [req EXCEPT ![s] = Done(@, 500)]
          /\ UNCHANGED restaurants
     ELSE /\ LET found == ReviewsOf(req[s].doc.id) IN
               restaurants' =
                 [restaurants EXCEPT ![req[s].doc.id] =
                    [rating       |-> IF found = {} THEN 0
                                      ELSE ToFixed2(SumRatings(reviews, found), Cardinality(found)),
                     totalRatings |-> Cardinality(found)]]
          /\ req' = [req EXCEPT ![s] = Done(@, okStatus)]
  /\ UNCHANGED <<reviews, likes, nextRestaurantId, nextReviewId, nextLikeId>>
  /\ Observe(s)

\* restaurant.save(), shared by the three review handlers
SaveRestaurantDoc(s, okStatus) ==
  /\ req[s].pc = "saveRestaurantDoc"
  /\ IF SaveFails(req[s])
     THEN /\ req' = [req EXCEPT ![s] = Done(@, 500)]
          /\ UNCHANGED restaurants
     ELSE /\ restaurants' = [restaurants EXCEPT ![req[s].doc.id] = SavedRestaurant(req[s])]
          /\ req' = [req EXCEPT ![s] = Done(@, okStatus)]
  /\ UNCHANGED <<reviews, likes, nextRestaurantId, nextReviewId, nextLikeId>>
  /\ Observe(s)

CreateReviewSaveRestaurant(s) ==
  /\ req[s].op = "createReview"
  /\ SaveRestaurantDoc(s, 201)


\* PUT /reviews/:reviewId
UpdateReviewStart(s, in) ==
  /\ Admit(s)
  /\ \E u \in in.users, vid \in in.vids,
        rating \in in.ratings, comment \in in.comments, image \in in.images :
       LET r == NewReq("updateReview", u, 0, vid, rating, comment, image)
       IN  req' = [req EXCEPT ![s] =
                     IF ~validateMongoId(vid)
                     THEN Done([r EXCEPT !.msg = "invalid id"], 400)
                     ELSE IF ReviewBodyError(rating, comment, image) # ""
                     THEN Done([r EXCEPT !.msg = ReviewBodyError(rating, comment, image)], 400)
                     ELSE [r EXCEPT !.pc = "findReview"]]
  /\ UNCHANGED <<restaurants, reviews, likes, nextRestaurantId, nextReviewId, nextLikeId>>
  /\ Observe(s)

\* mutant: the edit without the ownership check
UpdateReviewFindAnyUser(s) ==
  /\ req[s].op = "updateReview" /\ req[s].pc = "findReview"
  /\ LET r == req[s] IN
       req' = [req EXCEPT ![s] =
                 IF r.vid \notin DOMAIN reviews THEN Done(r, 404)
                 ELSE [r EXCEPT !.pc = "saveReview",
                                !.rev = reviews[r.vid],
                                !.upd = [reviews[r.vid] EXCEPT
                                           !.rating = r.rating \div 10,
                                           !.comment = IF r.comment # Absent THEN r.comment ELSE @,
                                           !.image = IF r.image # Absent THEN r.image ELSE @]]]
  /\ UNCHANGED <<restaurants, reviews, likes, nextRestaurantId, nextReviewId, nextLikeId>>
  /\ Observe(s)

\* an edit that assigns the request's comment even when it is empty
UpdateReviewFindNoFallback(s) ==
  /\ req[s].op = "updateReview" /\ req[s].pc = "findReview"
  /\ LET r == req[s] IN
       req' = [req EXCEPT ![s] =
                 IF r.vid \notin DOMAIN reviews THEN Done(r, 404)
                 ELSE IF reviews[r.vid].userId # r.user THEN Done(r, 403)
                 ELSE [r EXCEPT !.pc = "saveReview",
                                !.rev = reviews[r.vid],
                                !.upd = [reviews[r.vid] EXCEPT
                                           !.rating = r.rating \div 10,
                                           !.comment = r.comment,
                                           !.image = IF r.image # Absent THEN r.image ELSE @]]]
  /\ UNCHANGED <<restaurants, reviews, likes, nextRestaurantId, nextReviewId, nextLikeId>>
  /\ Observe(s)

\* Review.findById, the ownership check and the assignments to the loaded review
UpdateReviewFind(s) ==
  /\ req[s].op = "updateReview" /\ req[s].pc = "findReview"
  /\ LET r == req[s] IN
       req' = [req EXCEPT ![s] =
                 IF r.vid \notin DOMAIN reviews THEN Done(r, 404)
                 ELSE IF reviews[r.vid].userId # r.user THEN Done(r, 403)
                 ELSE [r EXCEPT !.pc = "saveReview",
                                !.rev = reviews[r.vid],
                                !.upd = [reviews[r.vid] EXCEPT
                                           !.rating = r.rating \div 10,
                                           !.comment = IF r.comment # Absent THEN r.comment ELSE @,
                                           !.image = IF r.image # Absent THEN r.image ELSE @]]]
  /\ UNCHANGED <<restaurants, reviews, likes, nextRestaurantId, nextReviewId, nextLikeId>>
  /\ Observe(s)

\* review.save(): the modified paths are written; a review that is gone raises
\* DocumentNotFoundError
UpdateReviewSave(s) ==
  /\ req[s].op = "updateReview" /\ req[s].pc = "saveReview"
  /\ LET r == req[s] IN
       IF r.vid \notin DOMAIN reviews
       THEN /\ req' = [req EXCEPT ![s] = Done(r, 500)]
            /\ UNCHANGED reviews
       ELSE /\ reviews' = [reviews EXCEPT ![r.vid] =
                             [@ EXCEPT !.rating = IF r.upd.rating # r.rev.rating THEN r.upd.rating ELSE @,
                                       !.comment = IF r.upd.comment # r.rev.comment THEN r.upd.comment ELSE @,
                                       !.image = IF r.upd.image # r.rev.image THEN r.upd.image ELSE @]]
            /\ req' = [req EXCEPT ![s] = [r EXCEPT !.pc = "findReviews"]]
  /\ UNCHANGED <<restaurants, likes, nextRestaurantId, nextReviewId, nextLikeId>>
  /\ Observe(s)

\* Review.find({ restaurantId: review.restaurantId }) and the mean
UpdateReviewRecompute(s) ==
  /\ req[s].op = "updateReview" /\ req[s].pc = "findReviews"
  /\ LET found == ReviewsOf(req[s].rev.restaurantId) IN
       req' = [req EXCEPT ![s] =
                 [@ EXCEPT !.pc = "findRestaurant",
                           !.setRating = ToFixed2(SumRatings(reviews, found), Cardinality(found))]]
  /\ UNCHANGED <<restaurants, reviews, likes, nextRestaurantId, nextReviewId, nextLikeId>>
  /\ Observe(s)

\* Restaurant.findById(review.restaurantId); assigning to a null restaurant throws
ReviewFindRestaurant(s) ==
  /\ req[s].pc = "findRestaurant"
  /\ LET r == req[s] IN
       req' = [req EXCEPT ![s] =
                 IF r.rev.restaurantId \notin DOMAIN restaurants THEN Done(r, 500)
                 ELSE [r EXCEPT !.pc = "saveRestaurantDoc",
                                !.doc = LoadDoc(r.rev.restaurantId)]]
  /\ UNCHANGED <<restaurants, reviews, likes, nextRestaurantId, nextReviewId, nextLikeId>>
  /\ Observe(s)

UpdateReviewFindRestaurant(s) ==
  /\ req[s].op = "updateReview"
  /\ ReviewFindRestaurant(s)

UpdateReviewSaveRestaurant(s) ==
  /\ req[s].op = "updateReview"
  /\ SaveRestaurantDoc(s, 200)

\* DELETE /reviews/:reviewId
DeleteReviewStart(s, in) ==
  /\ Admit(s)
  /\ \E u \in in.users, vid \in in.vids :
       LET r == NewReq("deleteReview", u, 0, vid, 0, 0, 0)
       IN  req' = [req EXCEPT ![s] =
                     IF validateMongoId(vid) THEN [r EXCEPT !.pc = "findReview"]
                     ELSE Done([r EXCEPT !.msg = "invalid id"], 400)]
  /\ UNCHANGED <<restaurants, reviews, likes, nextRestaurantId, nextReviewId, nextLikeId>>
  /\ Observe(s)

DeleteReviewFind(s) ==
  /\ req[s].op = "deleteReview" /\ req[s].pc = "findReview"
  /\ LET r == req[s] IN
       req' = [req EXCEPT ![s] =
                 IF r.vid \notin DOMAIN reviews THEN Done(r, 404)
                 ELSE IF reviews[r.vid].userId # r.user THEN Done(r, 403)
                 ELSE [r EXCEPT !.pc = "deleteReview", !.rev = reviews[r.vid]]]
  /\ UNCHANGED <<restaurants, reviews, likes, nextRestaurantId, nextReviewId, nextLikeId>>
  /\ Observe(s)

\* Review.findByIdAndDelete(reviewId)
DeleteReviewDelete(s) ==
  /\ req[s].op = "deleteReview" /\ req[s].pc = "deleteReview"
  /\ reviews' = [v \in DOMAIN reviews \ {req[s].vid} |-> reviews[v]]
  /\ req' = [req EXCEPT ![s] = [@ EXCEPT !.pc = "findReviews"]]
  /\ UNCHANGED <<restaurants, likes, nextRestaurantId, nextReviewId, nextLikeId>>
  /\ Observe(s)

\* mutant: the recompute without the branch for an empty review set
DeleteReviewRecomputeNoReset(s) ==
  /\ req[s].op = "deleteReview" /\ req[s].pc = "findReviews"
  /\ LET found == ReviewsOf(req[s].rev.restaurantId) IN
       req' = [req EXCEPT ![s] =
                 [@ EXCEPT !.pc = "findRestaurant",
                           !.setRating = ToFixed2(SumRatings(reviews, found), Cardinality(found)),
                           !.setTotal = Cardinality(found)]]
  /\ UNCHANGED <<restaurants, reviews, likes, nextRestaurantId, nextReviewId, nextLikeId>>
  /\ Observe(s)

\* Review.find({ restaurantId }) and the two branches on reviews.length
DeleteReviewRecompute(s) ==
  /\ req[s].op = "deleteReview" /\ req[s].pc = "findReviews"
  /\ LET found == ReviewsOf(req[s].rev.restaurantId) IN
       req' = [req EXCEPT ![s] =
                 [@ EXCEPT !.pc = "findRestaurant",
                           !.setRating = IF Cardinality(found) > 0
                                         THEN ToFixed2(SumRatings(reviews, found), Cardinality(found))
                                         ELSE 0,
                           !.setTotal = IF Cardinality(found) > 0 THEN Cardinality(found) ELSE 0]]
  /\ UNCHANGED <<restaurants, reviews, likes, nextRestaurantId, nextReviewId, nextLikeId>>
  /\ Observe(s)

DeleteReviewFindRestaurant(s) ==
  /\ req[s].op = "deleteReview"
  /\ ReviewFindRestaurant(s)

DeleteReviewSaveRestaurant(s) ==
  /\ req[s].op = "deleteReview"
  /\ SaveRestaurantDoc(s, 200)

\* mutant: the catch block removes the review a failed POST /reviews had saved
StoreCallFailsRollsBack(s) ==
  /\ req[s].pc \notin {"idle", "start", "done"}
  /\ req' = [req EXCEPT ![s] = Done(@, 500)]
  /\ reviews' = IF req[s].op = "createReview"
                THEN [v \in DOMAIN reviews \ {req[s].vid} |-> reviews[v]]
                ELSE reviews
  /\ UNCHANGED <<restaurants, likes, nextRestaurantId, nextReviewId, nextLikeId>>
  /\ Observe(s)

\* the pending store call of a handler rejects: the catch block answers 500
StoreCallFails(s) ==
  /\ req[s].pc \notin {"idle", "start", "done"}
  /\ req' = [req EXCEPT ![s] = Done(@, 500)]
  /\ UNCHANGED <<restaurants, reviews, likes, nextRestaurantId, nextReviewId, nextLikeId>>
  /\ Observe(s)

\* GET /reviews/:restaurantId (no authentication); the body is the set of the
\* reviews returned
GetReviewsStart(s, in) ==
  /\ Admit(s)
  /\ \E rid \in in.rids :
       req' = [req EXCEPT ![s] =
                 [NewReq("getReviews", 0, rid, 0, 0, 0, 0) EXCEPT !.pc = "findReviews"]]
  /\ UNCHANGED <<restaurants, reviews, likes, nextRestaurantId, nextReviewId, nextLikeId>>
  /\ Observe(s)

GetReviewsFind(s) ==
  /\ req[s].op = "getReviews" /\ req[s].pc = "findReviews"
  /\ LET r == req[s] IN
       req' = [req EXCEPT ![s] =
                 IF r.rid = Malformed THEN Done(r, 500)
                 ELSE Done([r EXCEPT !.body = ReviewsOf(r.rid)], 200)]
  /\ UNCHANGED <<restaurants, reviews, likes, nextRestaurantId, nextReviewId, nextLikeId>>
  /\ Observe(s)


\* POST /like
PendingLikeIds ==
  Cardinality({t \in Slots : req[t].op = "like" /\ req[t].pc \in {"findRestaurant", "findLike"}})

LikeStart(s, in) ==
  /\ Admit(s)
  /\ nextLikeId + PendingLikeIds <= MaxLikes
  /\ \E u \in in.users, rid \in in.rids \cup in.norid :
       LET r == NewReq("like", u, rid, 0, 0, 0, 0)
       IN  req' = [req EXCEPT ![s] =
                     IF rid = Absent THEN Done(r, 400)
                     ELSE [r EXCEPT !.pc = "findRestaurant"]]
  /\ UNCHANGED <<restaurants, reviews, likes, nextRestaurantId, nextReviewId, nextLikeId>>
  /\ Observe(s)

\* Restaurant.findById(restaurantId); a malformed id fails the ObjectId cast
LikeFindRestaurant(s) ==
  /\ req[s].op = "like" /\ req[s].pc = "findRestaurant"
  /\ LET r == req[s] IN
       req' = [req EXCEPT ![s] =
                 IF r.rid = Malformed THEN Done(r, 500)
                 ELSE IF r.rid \notin DOMAIN restaurants THEN Done(r, 404)
                 ELSE [r EXCEPT !.pc = "findLike"]]
  /\ UNCHANGED <<restaurants, reviews, likes, nextRestaurantId, nextReviewId, nextLikeId>>
  /\ Observe(s)

\* Like.findOne({ restaurantId, userId }) and the branch; new Like(...) assigns
\* the _id
LikeFindLike(s) ==
  /\ req[s].op = "like" /\ req[s].pc = "findLike"
  /\ LET r == req[s] IN
       IF LikesOf(r.rid, r.user) # {}
       THEN /\ \E l \in LikesOf(r.rid, r.user) :
                 req' = [req EXCEPT ![s] = [r EXCEPT !.pc = "deleteLike", !.lid = l]]
            /\ UNCHANGED nextLikeId
       ELSE /\ req' = [req EXCEPT ![s] = [r EXCEPT !.pc = "saveLike", !.lid = nextLikeId]]
            /\ nextLikeId' = nextLikeId + 1
  /\ UNCHANGED <<restaurants, reviews, likes, nextRestaurantId, nextReviewId>>
  /\ Observe(s)

\* mutant: the unlike removes every Like of the restaurant
LikeDeleteAllOfRestaurant(s) ==
  /\ req[s].op = "like" /\ req[s].pc = "deleteLike"
  /\ likes' = [l \in {k \in DOMAIN likes : likes[k].restaurantId # req[s].rid} |-> likes[l]]
  /\ req' = [req EXCEPT ![s] =
               Done([@ EXCEPT !.liked = FALSE, !.msg = "Restaurant unliked"], 200)]
  /\ UNCHANGED <<restaurants, reviews, nextRestaurantId, nextReviewId, nextLikeId>>
  /\ Observe(s)

\* Like.findByIdAndDelete(existingLike._id)
LikeDelete(s) ==
  /\ req[s].op = "like" /\ req[s].pc = "deleteLike"
  /\ likes' = [l \in DOMAIN likes \ {req[s].lid} |-> likes[l]]
  /\ req' = [req EXCEPT ![s] =
               Done([@ EXCEPT !.liked = FALSE, !.msg = "Restaurant unliked"], 200)]
  /\ UNCHANGED <<restaurants, reviews, nextRestaurantId, nextReviewId, nextLikeId>>
  /\ Observe(s)

\* mutant: the duplicate-key error falls through to the 500 branch
LikeSaveUncaught(s) ==
  /\ req[s].op = "like" /\ req[s].pc = "saveLike"
  /\ LET r == req[s] IN
       IF DuplicateKey(r.rid, r.user)
       THEN /\ req' = [req EXCEPT ![s] = Done(r, 500)]
            /\ UNCHANGED likes
       ELSE /\ likes' = [l \in DOMAIN likes \cup {r.lid} |->
                           IF l = r.lid THEN [restaurantId |-> r.rid, userId |-> r.user]
                           ELSE likes[l]]
            /\ req' = [req EXCEPT ![s] =
                         Done([r EXCEPT !.liked = TRUE, !.msg = "Restaurant liked"], 200)]
  /\ UNCHANGED <<restaurants, reviews, nextRestaurantId, nextReviewId, nextLikeId>>
  /\ Observe(s)

\* like.save(); error.code === 11000 is answered as a success
LikeSave(s) ==
  /\ req[s].op = "like" /\ req[s].pc = "saveLike"
  /\ LET r == req[s] IN
       IF DuplicateKey(r.rid, r.user)
       THEN /\ req' = [req EXCEPT ![s] =
                         Done([r EXCEPT !.liked = TRUE, !.msg = "Restaurant already liked"], 200)]
            /\ UNCHANGED likes
       ELSE /\ likes' = [l \in DOMAIN likes \cup {r.lid} |->
                           IF l = r.lid THEN [restaurantId |-> r.rid, userId |-> r.user]
                           ELSE likes[l]]
            /\ req' = [req EXCEPT ![s] =
                         Done([r EXCEPT !.liked = TRUE, !.msg = "Restaurant liked"], 200)]
  /\ UNCHANGED <<restaurants, reviews, nextRestaurantId, nextReviewId, nextLikeId>>
  /\ Observe(s)

\* GET /likes/:restaurantId
GetLikeStart(s, in) ==
  /\ Admit(s)
  /\ \E u \in in.users, rid \in in.rids :
       req' = [req EXCEPT ![s] =
                 [NewReq("getLike", u, rid, 0, 0, 0, 0) EXCEPT !.pc = "findLike"]]
  /\ UNCHANGED <<restaurants, reviews, likes, nextRestaurantId, nextReviewId, nextLikeId>>
  /\ Observe(s)

\* a status query that looks for a Like of the restaurant by any user
GetLikeFindAnyUser(s) ==
  /\ req[s].op = "getLike" /\ req[s].pc = "findLike"
  /\ LET r == req[s] IN
       req' = [req EXCEPT ![s] =
                 IF r.rid = Malformed THEN Done(r, 500)
                 ELSE Done([r EXCEPT !.liked =
                              \E l \in DOMAIN likes : likes[l].restaurantId = r.rid], 200)]
  /\ UNCHANGED <<restaurants, reviews, likes, nextRestaurantId, nextReviewId, nextLikeId>>
  /\ Observe(s)

GetLikeFind(s) ==
  /\ req[s].op = "getLike" /\ req[s].pc = "findLike"
  /\ LET r == req[s] IN
       req' = [req EXCEPT ![s] =
                 IF r.rid = Malformed THEN Done(r, 500)
                 ELSE Done([r EXCEPT !.liked = LikesOf(r.rid, r.user) # {}], 200)]
  /\ UNCHANGED <<restaurants, reviews, likes, nextRestaurantId, nextReviewId, nextLikeId>>
  /\ Observe(s)

\* ============================================================ chat service
Conns == 1..MaxConns
Rooms == {"general", "support"}
NoRoom == "undefined"          \* the room of an event sent without one
HistoryLimit == 50
PriorCounts == {0, 49}         \* messages of room general stored before the service starts
Blank == 2                     \* a text of white space only
Padded == 3                    \* text 1 with white space around it
TextInputs == {Absent, 1, Blank, Padded}

\* trim: true of the message path
Trim(text) ==
  IF text = Blank THEN Absent
  ELSE IF text = Padded THEN 1
  ELSE text

NoMessage ==
  [id |-> 0, userId |-> Absent, userName |-> Absent, message |-> Absent,
   room |-> NoRoom, createdAt |-> 0]

NoTask ==
  [kind |-> "none", pc |-> "idle", conn |-> 0, room |-> NoRoom, doc |-> NoMessage,
   result |-> <<>>, limit |-> 0, status |-> 0, below |-> FALSE, whole |-> FALSE]

\* a slot is free when it holds no handler, or one that has responded
TaskFree(s) == task[s].kind = "none" \/ task[s].pc = "done"

\* a message stored before the service starts
PriorMessage(i) ==
  [id |-> i, userId |-> 1, userName |-> 1, message |-> 1, room |-> "general",
   createdAt |-> i]

MessagesOf(room) == {i \in DOMAIN messages : messages[i].room = room}

\* the stored messages that share their createdAt with another one of the set
Tied(S) ==
  {i \in S : \E j \in S \ {i} : messages[j].createdAt = messages[i].createdAt}

\* the orders the store may return equal sort keys in
TieBreaks(S) ==
  {rank \in [Tied(S) -> 1..Cardinality(Tied(S))] :
     \A i, j \in Tied(S) : i # j => rank[i] # rank[j]}

\* the messages of one createdAt, in the order the store returns equal keys
RECURSIVE InRankOrder(_, _)
InRankOrder(G, rank) ==
  IF G = {} THEN <<>>
  ELSE LET m == CHOOSE i \in G : \A j \in G : rank[i] <= rank[j] IN
       <<messages[m]>> \o InRankOrder(G \ {m}, rank)

\* sort({ createdAt: -1 }): the messages of S created at t or before, latest first
RECURSIVE SortDesc(_, _, _)
SortDesc(S, rank, t) ==
  IF t < 0 THEN <<>>
  ELSE LET G == {i \in S : messages[i].createdAt = t} IN
       (IF Cardinality(G) = 1 THEN <<messages[CHOOSE i \in G : TRUE]>>
        ELSE InRankOrder(G, rank))
       \o SortDesc(S, rank, t - 1)

Limit(q, n) == SubSeq(q, 1, IF Len(q) < n THEN Len(q) ELSE n)

Reverse(q) == [i \in 1..Len(q) |-> q[Len(q) + 1 - i]]

\* a history that sorts oldest first before it cuts at the limit
OldestHistory(room, rank) ==
  Limit(Reverse(SortDesc(MessagesOf(room), rank, clock)), HistoryLimit)

\* Message.find({ room }).sort({ createdAt: -1 }).limit(50), then messages.reverse()
RecentHistory(room, rank) ==
  Reverse(Limit(SortDesc(MessagesOf(room), rank, clock), HistoryLimit))

\* the events the server emits, each with its argument
\* the event carries, for the record, the room of its join-room, whether the
\* room held fewer than 50 messages when the join-room arrived, and whether it
\* held at most 50 when the query ran
HistoryEvent(h, t) ==
  [event |-> "message-history", messages |-> h, room |-> t.room,
   below |-> t.below, whole |-> t.whole]

ReceiveEvent(m) == [event |-> "receive-message", message |-> m]

ErrorEvent(text) == [event |-> "error", error |-> text]

\* socket.emit: a closed socket receives nothing
Emit(c, e) ==
  IF c \in connected
  THEN [inbox EXCEPT ![c] = Append(@, e)]
  ELSE inbox

\* mutant: a join-room that queries the history and does not add the socket
\* to the room
JoinRoomQueryOnly(s, in) ==
  /\ TaskFree(s)
  /\ joins < MaxJoins
  /\ \E c \in connected \cap in.conns, room \in in.rooms :
       /\ task' = [task EXCEPT ![s] =
                     [NoTask EXCEPT !.kind = "join", !.pc = "find", !.conn = c,
                                    !.room = room,
                                    !.below = Cardinality(MessagesOf(room)) < HistoryLimit]]
       /\ lastIn' = [conn |-> c, event |-> "join-room",
                     data |-> [NoMessage EXCEPT !.room = room]]
  /\ joins' = joins + 1
  /\ UNCHANGED <<messages, nextMessageId, clock, connected, joined, inbox, sends,
                 coreVars, authVars>>

\* mutant: a join that leaves the rooms joined before
JoinRoomSwitch(s, in) ==
  /\ TaskFree(s)
  /\ joins < MaxJoins
  /\ \E c \in connected \cap in.conns, room \in in.rooms :
       /\ joined' = [joined EXCEPT ![c] = {room}]
       /\ task' = [task EXCEPT ![s] =
                     [NoTask EXCEPT !.kind = "join", !.pc = "find", !.conn = c,
                                    !.room = room,
                                    !.below = Cardinality(MessagesOf(room)) < HistoryLimit]]
       /\ lastIn' = [conn |-> c, event |-> "join-room",
                     data |-> [NoMessage EXCEPT !.room = room]]
  /\ joins' = joins + 1
  /\ UNCHANGED <<messages, nextMessageId, clock, connected, inbox, sends, coreVars, authVars>>

\* socket.on("join-room"): socket.join(room), then the query is issued
JoinRoom(s, in) ==
  /\ TaskFree(s)
  /\ joins < MaxJoins
  /\ \E c \in connected \cap in.conns, room \in in.rooms :
       /\ joined' = [joined EXCEPT ![c] = @ \cup {room}]
       /\ task' = [task EXCEPT ![s] =
                     [NoTask EXCEPT !.kind = "join", !.pc = "find", !.conn = c,
                                    !.room = room,
                                    !.below = Cardinality(MessagesOf(room)) < HistoryLimit]]
       /\ lastIn' = [conn |-> c, event |-> "join-room",
                     data |-> [NoMessage EXCEPT !.room = room]]
  /\ joins' = joins + 1
  /\ UNCHANGED <<messages, nextMessageId, clock, connected, inbox, sends, coreVars, authVars>>

\* the store runs the query; a failure is logged and nothing is emitted.  The
\* filter { room: undefined } of a join-room sent without a room matches no
\* message when the store reads it as null, and every message when the
\* undefined path is dropped from the filter
JoinFind(s) ==
  /\ task[s].kind = "join"
  /\ task[s].pc = "find"
  /\ \/ task' = [task EXCEPT ![s] = NoTask]
     \/ \E rank \in TieBreaks(MessagesOf(task[s].room)) :
          task' = [task EXCEPT ![s].pc = "emit",
                               ![s].result = RecentHistory(task[s].room, rank),
                               ![s].whole = Cardinality(MessagesOf(task[s].room)) <= HistoryLimit]
     \/ /\ task[s].room = NoRoom
        /\ \E rank \in TieBreaks(DOMAIN messages) :
             task' = [task EXCEPT
                        ![s].pc = "emit",
                        ![s].whole = Cardinality(DOMAIN messages) <= HistoryLimit,
                        ![s].result = Reverse(Limit(SortDesc(DOMAIN messages, rank, clock),
                                                    HistoryLimit))]
  /\ UNCHANGED <<messages, nextMessageId, clock, connected, joined, inbox, lastIn,
                 joins, sends, coreVars, authVars>>

\* socket.emit("message-history", messages.reverse())
JoinEmit(s) ==
  /\ task[s].kind = "join"
  /\ task[s].pc = "emit"
  /\ inbox' = Emit(task[s].conn, HistoryEvent(task[s].result, task[s]))
  /\ task' = [task EXCEPT ![s] = NoTask]
  /\ UNCHANGED <<messages, nextMessageId, clock, connected, joined, lastIn, joins,
                 sends, coreVars, authVars>>

\* the text a send-message event lacks: undefined or the empty string
Lacks(d) == d.userId = Absent \/ d.userName = Absent \/ d.message = Absent

\* const { ..., room = "general" } = data
RoomOf(d) == IF d.room = NoRoom THEN "general" ELSE d.room

\* new Message({ userId, userName, message, room }): _id, trimmed text, Date.now()
NewMessage(d, t) ==
  [id |-> nextMessageId, userId |-> d.userId, userName |-> d.userName,
   message |-> Trim(d.message), room |-> RoomOf(d), createdAt |-> t]

\* a handler that saves whatever fields it is given
SendMessageUnchecked(s, in) ==
  /\ TaskFree(s)
  /\ sends < MaxSends
  /\ \E c \in connected \cap in.conns, d \in in.data, t \in {clock + k : k \in in.ticks} :
       /\ lastIn' = [conn |-> c, event |-> "send-message", data |-> d]
       /\ task' = [task EXCEPT ![s] =
                     [NoTask EXCEPT !.kind = "send", !.pc = "save", !.conn = c,
                                    !.room = RoomOf(d), !.doc = NewMessage(d, t)]]
       /\ clock' = t
  /\ nextMessageId' = nextMessageId + 1
  /\ sends' = sends + 1
  /\ UNCHANGED <<messages, connected, joined, inbox, joins, coreVars, authVars>>

\* socket.on("send-message") up to the save
SendMessage(s, in) ==
  /\ TaskFree(s)
  /\ sends < MaxSends
  /\ \E c \in connected \cap in.conns, d \in in.data :
       /\ lastIn' = [conn |-> c, event |-> "send-message", data |-> d]
       /\ IF Lacks(d)
          THEN /\ inbox' = Emit(c, ErrorEvent("Missing required fields"))
               /\ UNCHANGED <<task, nextMessageId, clock>>
          ELSE /\ \E t \in {clock + k : k \in in.ticks} :
                    /\ task' = [task EXCEPT ![s] =
                                  [NoTask EXCEPT !.kind = "send", !.pc = "save",
                                                 !.conn = c, !.room = RoomOf(d),
                                                 !.doc = NewMessage(d, t)]]
                    /\ clock' = t
               /\ nextMessageId' = nextMessageId + 1
               /\ UNCHANGED inbox
  /\ sends' = sends + 1
  /\ UNCHANGED <<messages, connected, joined, joins, coreVars, authVars>>

\* a save that keeps one message per user and room: it replaces the earlier ones
SendSaveReplace(s) ==
  /\ task[s].kind = "send"
  /\ task[s].pc = "save"
  /\ \/ /\ task' = [task EXCEPT ![s].pc = "failed"]
        /\ UNCHANGED messages
     \/ /\ task[s].doc.message # Absent
        /\ LET kept == {i \in DOMAIN messages :
                         \/ messages[i].userId # task[s].doc.userId
                         \/ messages[i].room # task[s].doc.room}
           IN  messages' = [i \in kept \cup {task[s].doc.id} |->
                              IF i = task[s].doc.id THEN task[s].doc ELSE messages[i]]
        /\ task' = [task EXCEPT ![s].pc = "broadcast"]
  /\ UNCHANGED <<nextMessageId, clock, connected, joined, inbox, lastIn, joins,
                 sends, coreVars, authVars>>

\* newMessage.save(): required paths are validated, then the store inserts or fails
SendSave(s) ==
  /\ task[s].kind = "send"
  /\ task[s].pc = "save"
  /\ \/ /\ task' = [task EXCEPT ![s].pc = "failed"]
        /\ UNCHANGED messages
     \/ /\ task[s].doc.message # Absent
        /\ messages' = [i \in DOMAIN messages \cup {task[s].doc.id} |->
                          IF i = task[s].doc.id THEN task[s].doc ELSE messages[i]]
        /\ task' = [task EXCEPT ![s].pc = "broadcast"]
  /\ UNCHANGED <<nextMessageId, clock, connected, joined, inbox, lastIn, joins,
                 sends, coreVars, authVars>>

\* a broadcast to every socket: io.emit
SendBroadcastAll(s) ==
  /\ task[s].kind = "send"
  /\ task[s].pc = "broadcast"
  /\ inbox' = [c \in Conns |->
                 IF c \in connected
                 THEN Append(inbox[c], ReceiveEvent(task[s].doc))
                 ELSE inbox[c]]
  /\ task' = [task EXCEPT ![s] = NoTask]
  /\ UNCHANGED <<messages, nextMessageId, clock, connected, joined, lastIn, joins,
                 sends, coreVars, authVars>>

\* a broadcast that leaves the sender out: socket.to(room).emit
SendBroadcastOthers(s) ==
  /\ task[s].kind = "send"
  /\ task[s].pc = "broadcast"
  /\ inbox' = [c \in Conns |->
                 IF c \in connected /\ task[s].room \in joined[c] /\ c # task[s].conn
                 THEN Append(inbox[c], ReceiveEvent(task[s].doc))
                 ELSE inbox[c]]
  /\ task' = [task EXCEPT ![s] = NoTask]
  /\ UNCHANGED <<messages, nextMessageId, clock, connected, joined, lastIn, joins,
                 sends, coreVars, authVars>>

\* io.to(room).emit("receive-message", { id, userId, userName, message, room, createdAt })
SendBroadcast(s) ==
  /\ task[s].kind = "send"
  /\ task[s].pc = "broadcast"
  /\ inbox' = [c \in Conns |->
                 IF c \in connected /\ task[s].room \in joined[c]
                 THEN Append(inbox[c], ReceiveEvent(task[s].doc))
                 ELSE inbox[c]]
  /\ task' = [task EXCEPT ![s] = NoTask]
  /\ UNCHANGED <<messages, nextMessageId, clock, connected, joined, lastIn, joins,
                 sends, coreVars, authVars>>

\* mutant: the catch block broadcasts the message that was not saved
SendFailedBroadcasts(s) ==
  /\ task[s].kind = "send"
  /\ task[s].pc = "failed"
  /\ inbox' = [c \in Conns |->
                 IF c \in connected /\ task[s].room \in joined[c]
                 THEN Append(inbox[c], ReceiveEvent(task[s].doc))
                 ELSE inbox[c]]
  /\ task' = [task EXCEPT ![s] = NoTask]
  /\ UNCHANGED <<messages, nextMessageId, clock, connected, joined, lastIn, joins,
                 sends, coreVars, authVars>>

\* catch: socket.emit("error", { message: "Failed to send message" })
SendFailed(s) ==
  /\ task[s].kind = "send"
  /\ task[s].pc = "failed"
  /\ inbox' = Emit(task[s].conn, ErrorEvent("Failed to send message"))
  /\ task' = [task EXCEPT ![s] = NoTask]
  /\ UNCHANGED <<messages, nextMessageId, clock, connected, joined, lastIn, joins,
                 sends, coreVars, authVars>>

\* const { room = "general", limit = 50 } = req.query, and parseInt(limit)
QueryRoom(room) == IF room = NoRoom THEN "general" ELSE room
NoLimit == "undefined"         \* the limit of a request sent without one
LimitInputs == {NoLimit, "0", "1", "2"}
ParseInt(text) == CASE text = "0" -> 0 [] text = "1" -> 1 [] OTHER -> 2
QueryLimit(limit) == IF limit = NoLimit THEN 50 ELSE ParseInt(limit)

\* Query#limit(n) of the store: a limit of 0 is no limit
CursorLimit(q, n) == IF n = 0 THEN q ELSE Limit(q, n)

\* GET /messages: the query is issued
GetMessages(s, in) ==
  /\ TaskFree(s)
  /\ \E room \in in.rooms \cup {NoRoom}, limit \in in.limits :
       task' = [task EXCEPT ![s] =
                  [NoTask EXCEPT !.kind = "get", !.pc = "find",
                                 !.room = QueryRoom(room), !.limit = QueryLimit(limit)]]
  /\ UNCHANGED <<messages, nextMessageId, clock, connected, joined, inbox, lastIn,
                 joins, sends, coreVars, authVars>>

\* the store runs the query: res.json(messages.reverse()), or 500 when it fails
GetMessagesFind(s) ==
  /\ task[s].kind = "get"
  /\ task[s].pc = "find"
  /\ \/ task' = [task EXCEPT ![s].pc = "done", ![s].status = 500]
     \/ \E rank \in TieBreaks(MessagesOf(task[s].room)) :
          task' = [task EXCEPT
                     ![s].pc = "done", ![s].status = 200,
                     ![s].result =
                        Reverse(CursorLimit(SortDesc(MessagesOf(task[s].room), rank, clock),
                                            task[s].limit))]
  /\ UNCHANGED <<messages, nextMessageId, clock, connected, joined, inbox, lastIn,
                 joins, sends, coreVars, authVars>>

\* the socket closes: it leaves its rooms and nothing more reaches it
Disconnect(c) ==
  /\ c \in connected
  /\ connected' = connected \ {c}
  /\ joined' = [joined EXCEPT ![c] = {}]
  /\ UNCHANGED <<messages, nextMessageId, clock, inbox, task, lastIn, joins, sends,
                 coreVars, authVars>>

\* ============================================================ auth service
Null == -3                    \* a reset path holding null
Registered == {1}             \* the users in the store; user u registered email u
EmailInputs == {Absent, Malformed, 1, 2}   \* email 2 is well formed and free
ResetCodes == {1, 2}          \* the six-digit codes Math.random() may yield
ResetTokenTtl == 1            \* 900000 ms, the unit of the auth clock
MaxNow == 2                   \* Date.now() values of the auth service
MaxVerifies == 2              \* successful verifications of one issued code
\* a password, by the number of its characters of each kind: a-z, A-Z, 0-9,
\* the symbols of the validator's class, white space, and any other character
Password(lower, upper, digit, symbol, space, other) ==
  [lower |-> lower, upper |-> upper, digit |-> digit, symbol |-> symbol,
   space |-> space, other |-> other]
NoPassword == Password(0, 0, 0, 0, 0, 0)        \* undefined or ""
StrongPassword == Password(5, 1, 1, 1, 0, 0)    \* "Abcdef1!"
WeakPassword == Password(8, 0, 0, 0, 0, 0)      \* "abcdefgh"
FirstPassword == Password(4, 2, 1, 1, 0, 0)     \* the password of a user in the store
\* "Abcde1!", "ABCDEF1!", "abcdef1!", "Abcdefg!", "Abcdefg1", "Abcdef1~"
PasswordInputs ==
  {StrongPassword, NoPassword, WeakPassword,
   Password(4, 1, 1, 1, 0, 0), Password(0, 6, 1, 1, 0, 0), Password(6, 0, 1, 1, 0, 0),
   Password(6, 1, 0, 1, 0, 0), Password(6, 1, 1, 0, 0, 0), Password(5, 1, 1, 0, 0, 1)}

PasswordLength(p) == p.lower + p.upper + p.digit + p.symbol + p.space + p.other
TokenInputs == {"missing", "invalid", "expired", "user1", "user2"}

GenericMessage == "Si el email existe en nuestro sistema, recibiras un codigo"

\* the JSON body of a response, as its (key, value) pairs
ErrorBody(text) == {<<"error", text>>}
MessageBody(text) == {<<"message", text>>}
SuccessBody(text) == {<<"message", text>>, <<"success", "true">>}

validateRequired(value) == value # Absent

validateEmail(email) == email # Absent /\ email # Malformed

\* validateName: 3 to 50 letters and spaces; name -1 is not one
validateName(name) == name # Absent /\ name # Malformed

validateConfirmPassword(password, confirmPassword) == password = confirmPassword

\* validateRequired of a password: undefined, "" and white space fail
validateRequiredText(p) == PasswordLength(p) > p.space

\* a strength test that asks for no symbol
validatePasswordStrengthNoSymbol(password) ==
  /\ PasswordLength(password) >= 8
  /\ password.lower >= 1
  /\ password.upper >= 1
  /\ password.digit >= 1

\* length >= 8, /[a-z]/, /[A-Z]/, /[0-9]/ and the symbol class
validatePasswordStrength(password) ==
  /\ PasswordLength(password) >= 8
  /\ password.lower >= 1
  /\ password.upper >= 1
  /\ password.digit >= 1
  /\ password.symbol >= 1

\* a registered user as POST /register stores it: the reset paths are null
NewUser(u) ==
  [email |-> u, password |-> FirstPassword, name |-> 1, preferences |-> 0,
   isProfileComplete |-> FALSE,
   resetCode |-> Null, resetToken |-> Null, resetTokenExpiry |-> Null]

NoUser == [id |-> 0, resetCode |-> Null]

IdleAuth ==
  [op |-> "none", pc |-> "idle", email |-> 0, code |-> 0, newPassword |-> NoPassword,
   token |-> "missing", update |-> 0, doc |-> NoUser, newCode |-> Null,
   expiry |-> Null, hash |-> NoPassword, status |-> 0, body |-> {}, stale |-> FALSE,
   read |-> FALSE, written |-> FALSE]

NewAuth(op, pc) == [IdleAuth EXCEPT !.op = op, !.pc = pc]

\* res.status(status).json(body): the handler ends, its locals are dropped; the
\* record keeps the request that was answered
Respond(r, status, body) ==
  [r EXCEPT !.pc = "done", !.status = status, !.body = body,
            !.update = 0, !.doc = NoUser, !.newCode = Null,
            !.expiry = Null, !.hash = NoPassword]

AuthFree(s) == areq[s].pc \in {"idle", "done"}

\* User.findOne({ email })
UsersByEmail(email) == {u \in DOMAIN users : users[u].email = email}

\* mutant: a query that still matches at the expiry time ($gte)
UsersByCodeAtExpiry(email, code) ==
  {u \in DOMAIN users : /\ users[u].email = email
                        /\ users[u].resetCode = code
                        /\ users[u].resetTokenExpiry # Null
                        /\ users[u].resetTokenExpiry >= now}

\* User.findOne({ email, resetCode, resetTokenExpiry: { $gt: Date.now() } }):
\* a null expiry is greater than no number
UsersByCode(email, code) ==
  {u \in DOMAIN users : /\ users[u].email = email
                        /\ users[u].resetCode = code
                        /\ users[u].resetTokenExpiry # Null
                        /\ users[u].resetTokenExpiry > now}

\* the user a request's email names, 0 when there is none
Holder(email) ==
  IF UsersByEmail(email) = {} THEN 0 ELSE CHOOSE u \in UsersByEmail(email) : TRUE

\* a request presents a consumed code when the latest successful reset of the
\* user it names consumed that code and no code has been issued to the user since
PresentsSpent(email, code) ==
  /\ Holder(email) # 0
  /\ code # Absent
  /\ spent[Holder(email)] = code

\* time passes between two steps
Tick ==
  /\ now < MaxNow
  /\ now' = now + 1
  /\ UNCHANGED <<users, areq, spent, redeemed, verified, coreVars, chatVars>>

\* POST /password-reset-request
ResetRequestStart(s, in) ==
  /\ AuthFree(s)
  /\ \E email \in in.emails :
       LET r == [NewAuth("passwordResetRequest", "findUser") EXCEPT !.email = email]
       IN  areq' = [areq EXCEPT ![s] =
                      IF ~validateRequired(email) THEN Respond(r, 400, ErrorBody("Email es requerido"))
                      ELSE IF ~validateEmail(email) THEN Respond(r, 400, ErrorBody("El email debe ser valido"))
                      ELSE r]
  /\ UNCHANGED <<users, now, spent, redeemed, verified, coreVars, chatVars>>

\* findOne returns; for a user the handler draws the code and the token,
\* assigns them with the expiry to the loaded document and calls save
ResetRequestFind(s, in) ==
  /\ areq[s].op = "passwordResetRequest" /\ areq[s].pc = "findUser"
  /\ IF UsersByEmail(areq[s].email) = {}
     THEN areq' = [areq EXCEPT ![s] =
                     Respond([@ EXCEPT !.read = TRUE], 200, MessageBody(GenericMessage))]
     ELSE \E u \in UsersByEmail(areq[s].email), code \in in.codes :
            areq' = [areq EXCEPT ![s] =
                       [@ EXCEPT !.pc = "saveUser", !.read = TRUE,
                                 !.doc = [id |-> u, resetCode |-> users[u].resetCode],
                                 !.newCode = code,
                                 !.expiry = now + ResetTokenTtl]]
  /\ UNCHANGED <<users, now, spent, redeemed, verified, coreVars, chatVars>>

\* user.save() writes the modified paths: the token and the expiry, and the
\* code when it differs from the one loaded
ResetRequestSave(s) ==
  /\ areq[s].op = "passwordResetRequest" /\ areq[s].pc = "saveUser"
  /\ LET u == areq[s].doc.id
     IN  /\ users' = [users EXCEPT ![u] =
                        [@ EXCEPT !.resetToken = 1,
                                  !.resetCode = IF areq[s].newCode # areq[s].doc.resetCode
                                                THEN areq[s].newCode ELSE @,
                                  !.resetTokenExpiry = areq[s].expiry]]
         /\ spent' = [spent EXCEPT ![u] = 0]
         /\ redeemed' = [redeemed EXCEPT ![u] = 0]
         /\ verified' = [verified EXCEPT ![u] = 0]
         /\ areq' = [t \in Slots |->
                       IF t = s THEN [areq[s] EXCEPT !.pc = "sendEmail", !.written = TRUE]
                       ELSE IF areq[t].email = users[u].email
                       THEN [areq[t] EXCEPT !.stale = FALSE]
                       ELSE areq[t]]
  /\ UNCHANGED <<now, coreVars, chatVars>>

\* sendResetEmail resolves or rejects
ResetRequestSend(s) ==
  /\ areq[s].op = "passwordResetRequest" /\ areq[s].pc = "sendEmail"
  /\ \E sent \in BOOLEAN :
       areq' = [areq EXCEPT ![s] =
                  IF sent THEN Respond(@, 200, SuccessBody(GenericMessage))
                  ELSE Respond(@, 500, ErrorBody("No pudimos enviar el email de reseteo"))]
  /\ UNCHANGED <<users, now, spent, redeemed, verified, coreVars, chatVars>>

\* POST /verify-reset-code
VerifyCodeStart(s, in) ==
  /\ AuthFree(s)
  /\ \E email \in in.emails, code \in in.presented :
       LET r == [NewAuth("verifyResetCode", "findUser")
                   EXCEPT !.email = email, !.code = code,
                          !.stale = PresentsSpent(email, code)]
       IN  areq' = [areq EXCEPT ![s] =
                      IF ~validateRequired(email) THEN Respond(r, 400, ErrorBody("Email es requerido"))
                      ELSE IF ~validateRequired(code)
                      THEN Respond(r, 400, ErrorBody("Codigo de reseteo es requerido"))
                      ELSE r]
  /\ UNCHANGED <<users, now, spent, redeemed, verified, coreVars, chatVars>>

\* a verification that consumes the code it accepts
VerifyCodeFindConsumes(s) ==
  /\ areq[s].op = "verifyResetCode" /\ areq[s].pc = "findUser"
  /\ IF UsersByCode(areq[s].email, areq[s].code) = {}
     THEN /\ areq' = [areq EXCEPT ![s] =
                        Respond([@ EXCEPT !.read = TRUE], 400,
                                ErrorBody("El codigo de reseteo es invalido o ha expirado"))]
          /\ UNCHANGED <<users, verified>>
     ELSE \E u \in UsersByCode(areq[s].email, areq[s].code) :
            /\ verified[u] < MaxVerifies
            /\ areq' = [areq EXCEPT ![s] =
                          Respond([@ EXCEPT !.read = TRUE], 200,
                                  SuccessBody("Codigo verificado correctamente") \cup
                                    {<<"tempToken", "isReset">>})]
            /\ users' = [users EXCEPT ![u] = [@ EXCEPT !.resetCode = Null]]
            /\ verified' = [verified EXCEPT ![u] = @ + 1]
  /\ UNCHANGED <<now, spent, redeemed, coreVars, chatVars>>

\* User.findOne({ email, resetCode, resetTokenExpiry: { $gt: Date.now() } })
\* returns; the handler answers and writes nothing
VerifyCodeFind(s) ==
  /\ areq[s].op = "verifyResetCode" /\ areq[s].pc = "findUser"
  /\ IF UsersByCode(areq[s].email, areq[s].code) = {}
     THEN /\ areq' = [areq EXCEPT ![s] =
                        Respond([@ EXCEPT !.read = TRUE], 400,
                                ErrorBody("El codigo de reseteo es invalido o ha expirado"))]
          /\ UNCHANGED verified
     ELSE \E u \in UsersByCode(areq[s].email, areq[s].code) :
            /\ verified[u] < MaxVerifies
            /\ areq' = [areq EXCEPT ![s] =
                          Respond([@ EXCEPT !.read = TRUE], 200,
                                  SuccessBody("Codigo verificado correctamente") \cup
                                    {<<"tempToken", "isReset">>})]
            /\ verified' = [verified EXCEPT ![u] = @ + 1]
  /\ UNCHANGED <<users, now, spent, redeemed, coreVars, chatVars>>

\* the first validation of POST /password-reset that fails, "" when all pass
PasswordResetError(email, code, newPassword, confirmPassword) ==
  IF ~validateRequired(email) THEN "Email es requerido"
  ELSE IF ~validateRequired(code) THEN "Codigo de reseteo es requerido"
  ELSE IF ~validateRequiredText(newPassword) THEN "Nueva contrasena es requerido"
  ELSE IF ~validateRequiredText(confirmPassword)
  THEN "Confirmacion de contrasena es requerido"
  ELSE IF ~validateConfirmPassword(newPassword, confirmPassword)
  THEN "Las contrasenas no coinciden"
  ELSE IF ~validatePasswordStrength(newPassword) THEN "La contrasena debe incluir"
  ELSE ""

\* POST /password-reset
PasswordResetStart(s, in) ==
  /\ AuthFree(s)
  /\ \E email \in in.emails, code \in in.presented,
        newPassword \in in.passwords, confirmPassword \in in.confirms :
       LET r == [NewAuth("passwordReset", "findUser")
                   EXCEPT !.email = email, !.code = code, !.newPassword = newPassword,
                          !.stale = PresentsSpent(email, code)]
           e == PasswordResetError(email, code, newPassword, confirmPassword)
       IN  areq' = [areq EXCEPT ![s] = IF e # "" THEN Respond(r, 400, ErrorBody(e)) ELSE r]
  /\ UNCHANGED <<users, now, spent, redeemed, verified, coreVars, chatVars>>

PasswordResetFind(s) ==
  /\ areq[s].op = "passwordReset" /\ areq[s].pc = "findUser"
  /\ IF UsersByCode(areq[s].email, areq[s].code) = {}
     THEN areq' = [areq EXCEPT ![s] =
                     Respond([@ EXCEPT !.read = TRUE], 400,
                             ErrorBody("El codigo de reseteo es invalido o ha expirado"))]
     ELSE \E u \in UsersByCode(areq[s].email, areq[s].code) :
            areq' = [areq EXCEPT ![s] =
                       [@ EXCEPT !.pc = "saveUser", !.read = TRUE,
                                 !.doc = [id |-> u, resetCode |-> users[u].resetCode]]]
  /\ UNCHANGED <<users, now, spent, redeemed, verified, coreVars, chatVars>>

\* a save that stores the password and leaves the reset paths as they are
PasswordResetSaveKeepsCode(s) ==
  /\ areq[s].op = "passwordReset" /\ areq[s].pc = "saveUser"
  /\ LET u == areq[s].doc.id
     IN  /\ users' = [users EXCEPT ![u] = [@ EXCEPT !.password = areq[s].newPassword]]
         /\ spent' = [spent EXCEPT ![u] = areq[s].code]
         /\ redeemed' = [redeemed EXCEPT ![u] = @ + 1]
  /\ areq' = [areq EXCEPT ![s] =
                Respond([@ EXCEPT !.written = TRUE], 200,
                        SuccessBody("Tu contrasena ha sido restablecida exitosamente"))]
  /\ UNCHANGED <<now, verified, coreVars, chatVars>>

\* user.save() stores the new password and the three reset paths, now null
PasswordResetSave(s) ==
  /\ areq[s].op = "passwordReset" /\ areq[s].pc = "saveUser"
  /\ LET u == areq[s].doc.id
     IN  /\ users' = [users EXCEPT ![u] =
                        [@ EXCEPT !.password = areq[s].newPassword,
                                  !.resetToken = Null,
                                  !.resetCode = Null,
                                  !.resetTokenExpiry = Null]]
         /\ spent' = [spent EXCEPT ![u] = areq[s].code]
         /\ redeemed' = [redeemed EXCEPT ![u] = @ + 1]
  /\ areq' = [areq EXCEPT ![s] =
                Respond([@ EXCEPT !.written = TRUE], 200,
                        SuccessBody("Tu contrasena ha sido restablecida exitosamente"))]
  /\ UNCHANGED <<now, verified, coreVars, chatVars>>

\* user.comparePassword(password): the candidate against the stored hash, which
\* is modelled by the password it was made from
comparePassword(hash, password) == hash = password

\* the body of a successful login: the message, the token and the user
LoginBody(u) ==
  {<<"message", "Login successful">>, <<"token", "jwt">>, <<"user", "profile">>}

\* POST /login; the password is held in newPassword
LoginStart(s, in) ==
  /\ AuthFree(s)
  /\ \E email \in in.emails, password \in in.passwords :
       LET r == [NewAuth("login", "findUser") EXCEPT !.email = email, !.newPassword = password]
       IN  areq' = [areq EXCEPT ![s] =
                      IF ~validateRequired(email) THEN Respond(r, 400, ErrorBody("Email es requerido"))
                      ELSE IF ~validateRequiredText(password)
                      THEN Respond(r, 400, ErrorBody("Contrasena es requerido"))
                      ELSE IF ~validateEmail(email)
                      THEN Respond(r, 400, ErrorBody("El email debe ser valido"))
                      ELSE r]
  /\ UNCHANGED <<users, now, spent, redeemed, verified, coreVars, chatVars>>

\* a login that tells an unknown email from a wrong password
LoginFindReveals(s) ==
  /\ areq[s].op = "login" /\ areq[s].pc = "findUser"
  /\ IF UsersByEmail(areq[s].email) = {}
     THEN areq' = [areq EXCEPT ![s] =
                     Respond([@ EXCEPT !.read = TRUE], 404, ErrorBody("User not found"))]
     ELSE \E u \in UsersByEmail(areq[s].email) :
            areq' = [areq EXCEPT ![s] =
                       [@ EXCEPT !.pc = "comparePassword", !.read = TRUE,
                                 !.doc = [id |-> u, resetCode |-> users[u].resetCode],
                                 !.hash = users[u].password]]
  /\ UNCHANGED <<users, now, spent, redeemed, verified, coreVars, chatVars>>

\* User.findOne({ email }) returns: no user ends the request, a user is loaded
LoginFind(s) ==
  /\ areq[s].op = "login" /\ areq[s].pc = "findUser"
  /\ IF UsersByEmail(areq[s].email) = {}
     THEN areq' = [areq EXCEPT ![s] =
                     Respond([@ EXCEPT !.read = TRUE], 401, ErrorBody("Invalid credentials"))]
     ELSE \E u \in UsersByEmail(areq[s].email) :
            areq' = [areq EXCEPT ![s] =
                       [@ EXCEPT !.pc = "comparePassword", !.read = TRUE,
                                 !.doc = [id |-> u, resetCode |-> users[u].resetCode],
                                 !.hash = users[u].password]]
  /\ UNCHANGED <<users, now, spent, redeemed, verified, coreVars, chatVars>>

\* user.comparePassword resolves; a match signs the token and answers 200
LoginCompare(s) ==
  /\ areq[s].op = "login" /\ areq[s].pc = "comparePassword"
  /\ areq' = [areq EXCEPT ![s] =
                IF ~comparePassword(areq[s].hash, areq[s].newPassword)
                THEN Respond(@, 401, ErrorBody("Invalid credentials"))
                ELSE Respond(@, 200, LoginBody(areq[s].doc.id))]
  /\ UNCHANGED <<users, now, spent, redeemed, verified, coreVars, chatVars>>

\* the first validation of POST /register that fails, "" when all pass
RegisterError(email, password, name, confirmPassword) ==
  IF ~validateRequired(email) THEN "Email es requerido"
  ELSE IF ~validateRequiredText(password) THEN "Contrasena es requerido"
  ELSE IF ~validateRequired(name) THEN "Nombre es requerido"
  ELSE IF ~validateRequiredText(confirmPassword) THEN "Confirmar contrasena es requerido"
  ELSE IF ~validateEmail(email) THEN "El email debe ser valido"
  ELSE IF ~validateName(name) THEN "El nombre debe tener entre 3 y 50 caracteres"
  ELSE IF ~validatePasswordStrength(password) THEN "La contrasena debe incluir"
  ELSE IF ~validateConfirmPassword(password, confirmPassword)
  THEN "Las contrasenas no coinciden"
  ELSE ""

\* POST /register
RegisterStart(s, in) ==
  /\ AuthFree(s)
  /\ \E email \in in.emails, password \in in.passwords, name \in in.names,
        confirmPassword \in in.confirms :
       LET r == [NewAuth("register", "findUser")
                   EXCEPT !.email = email, !.newPassword = password, !.update = name]
           e == RegisterError(email, password, name, confirmPassword)
       IN  areq' = [areq EXCEPT ![s] = IF e # "" THEN Respond(r, 400, ErrorBody(e)) ELSE r]
  /\ UNCHANGED <<users, now, spent, redeemed, verified, coreVars, chatVars>>

\* User.findOne({ email }): a user with the email ends the request
RegisterFind(s) ==
  /\ areq[s].op = "register" /\ areq[s].pc = "findUser"
  /\ areq' = [areq EXCEPT ![s] =
                IF UsersByEmail(areq[s].email) # {}
                THEN Respond([@ EXCEPT !.read = TRUE], 400, ErrorBody("User already exists"))
                ELSE [@ EXCEPT !.pc = "saveUser", !.read = TRUE]]
  /\ UNCHANGED <<users, now, spent, redeemed, verified, coreVars, chatVars>>

\* the unique index of the email path rejects a second user of one email
DuplicateEmail(email) == UsersByEmail(email) # {}

\* user.save() of the new User; the user of email e is stored under id e
RegisterSave(s) ==
  /\ areq[s].op = "register" /\ areq[s].pc = "saveUser"
  /\ IF DuplicateEmail(areq[s].email)
     THEN /\ areq' = [areq EXCEPT ![s] =
                        Respond(@, 500, ErrorBody("Internal server error"))]
          /\ UNCHANGED <<users, spent, redeemed, verified>>
     ELSE LET u == areq[s].email IN
          /\ users' = (u :> [NewUser(u) EXCEPT !.password = areq[s].newPassword,
                                               !.name = areq[s].update]) @@ users
          /\ spent' = (u :> 0) @@ spent
          /\ redeemed' = (u :> 0) @@ redeemed
          /\ verified' = (u :> 0) @@ verified
          /\ areq' = [areq EXCEPT ![s] =
                        Respond([@ EXCEPT !.written = TRUE], 201,
                                {<<"message", "User registered successfully">>})]
  /\ UNCHANGED <<now, coreVars, chatVars>>

\* jwt.verify(token, JWT_SECRET) returns the payload of a token that is signed
\* with the secret and has not expired, and throws for any other
JwtVerifies(token) == token \in {"user1", "user2"}
JwtUserId(token) == IF token = "user1" THEN 1 ELSE 2

\* the status authenticateToken responds with, 0 when it calls next()
authenticateToken(token) ==
  IF token = "missing" THEN 401
  ELSE IF ~JwtVerifies(token) THEN 403
  ELSE 0

\* GET /verify
GetVerifyStart(s, in) ==
  /\ AuthFree(s)
  /\ \E token \in in.tokens :
       LET r == [NewAuth("getVerify", "findUser") EXCEPT !.token = token]
       IN  areq' = [areq EXCEPT ![s] =
                      IF token = "missing" THEN Respond(r, 401, ErrorBody("No token provided"))
                      ELSE IF ~JwtVerifies(token) THEN Respond(r, 401, ErrorBody("Invalid token"))
                      ELSE [r EXCEPT !.doc = [id |-> JwtUserId(token), resetCode |-> Null]]]
  /\ UNCHANGED <<users, now, spent, redeemed, verified, coreVars, chatVars>>

GetVerifyFind(s) ==
  /\ areq[s].op = "getVerify" /\ areq[s].pc = "findUser"
  /\ areq' = [areq EXCEPT ![s] =
                IF areq[s].doc.id \notin DOMAIN users
                THEN Respond([@ EXCEPT !.read = TRUE], 401, ErrorBody("User not found"))
                ELSE Respond([@ EXCEPT !.read = TRUE], 200, {<<"valid", "true">>})]
  /\ UNCHANGED <<users, now, spent, redeemed, verified, coreVars, chatVars>>

\* a route behind authenticateToken: the middleware answers, or the handler starts
Protected(s, r, token, status, body) ==
  areq' = [areq EXCEPT ![s] =
             IF authenticateToken(token) = 401
             THEN Respond(r, 401, ErrorBody("Access token required"))
             ELSE IF authenticateToken(token) = 403
             THEN Respond(r, 403, ErrorBody("Invalid or expired token"))
             ELSE IF status # 0 THEN Respond(r, status, body)
             ELSE [r EXCEPT !.doc = [id |-> JwtUserId(token), resetCode |-> Null]]]

\* GET /profile
GetProfileStart(s, in) ==
  /\ AuthFree(s)
  /\ \E token \in in.tokens :
       Protected(s, [NewAuth("getProfile", "findUser") EXCEPT !.token = token],
                 token, 0, {})
  /\ UNCHANGED <<users, now, spent, redeemed, verified, coreVars, chatVars>>

GetProfileFind(s) ==
  /\ areq[s].op = "getProfile" /\ areq[s].pc = "findUser"
  /\ areq' = [areq EXCEPT ![s] =
                IF areq[s].doc.id \notin DOMAIN users
                THEN Respond([@ EXCEPT !.read = TRUE], 404, ErrorBody("User not found"))
                ELSE Respond([@ EXCEPT !.read = TRUE], 200, {<<"id", "user">>})]
  /\ UNCHANGED <<users, now, spent, redeemed, verified, coreVars, chatVars>>

\* PUT /profile; of the body the model keeps the name, undefined when Absent
PutProfileStart(s, in) ==
  /\ AuthFree(s)
  /\ \E token \in in.tokens, name \in in.names :
       Protected(s, [NewAuth("putProfile", "updateUser")
                       EXCEPT !.token = token, !.update = name],
                 token,
                 IF name # Absent /\ ~validateName(name) THEN 400 ELSE 0,
                 ErrorBody("El nombre debe tener entre 3 y 50 caracteres"))
  /\ UNCHANGED <<users, now, spent, redeemed, verified, coreVars, chatVars>>

\* User.findByIdAndUpdate(userId, { $set: updateData })
PutProfileUpdate(s) ==
  /\ areq[s].op = "putProfile" /\ areq[s].pc = "updateUser"
  /\ IF areq[s].doc.id \notin DOMAIN users
     THEN /\ areq' = [areq EXCEPT ![s] =
                        Respond([@ EXCEPT !.read = TRUE], 404, ErrorBody("User not found"))]
          /\ UNCHANGED users
     ELSE /\ users' = [users EXCEPT ![areq[s].doc.id] =
                         [@ EXCEPT !.name = IF areq[s].update # Absent
                                            THEN areq[s].update ELSE @]]
          /\ areq' = [areq EXCEPT ![s] =
                        Respond([@ EXCEPT !.read = TRUE, !.written = TRUE], 200,
                                {<<"message", "Profile updated successfully">>})]
  /\ UNCHANGED <<now, spent, redeemed, verified, coreVars, chatVars>>

\* POST /profile/complete-setup; the body is complete and valid (1) or not (Absent)
CompleteSetupStart(s, in) ==
  /\ AuthFree(s)
  /\ \E token \in in.tokens, setup \in in.setups :
       Protected(s, [NewAuth("completeSetup", "updateUser")
                       EXCEPT !.token = token, !.update = setup],
                 token,
                 IF setup = Absent THEN 400 ELSE 0,
                 ErrorBody("Debes seleccionar al menos un tipo de comida"))
  /\ UNCHANGED <<users, now, spent, redeemed, verified, coreVars, chatVars>>

CompleteSetupUpdate(s) ==
  /\ areq[s].op = "completeSetup" /\ areq[s].pc = "updateUser"
  /\ IF areq[s].doc.id \notin DOMAIN users
     THEN /\ areq' = [areq EXCEPT ![s] =
                        Respond([@ EXCEPT !.read = TRUE], 404, ErrorBody("User not found"))]
          /\ UNCHANGED users
     ELSE /\ users' = [users EXCEPT ![areq[s].doc.id] =
                         [@ EXCEPT !.preferences = areq[s].update,
                                   !.isProfileComplete = TRUE]]
          /\ areq' = [areq EXCEPT ![s] =
                        Respond([@ EXCEPT !.read = TRUE, !.written = TRUE], 200,
                                {<<"message", "Setup completed successfully">>})]
  /\ UNCHANGED <<now, spent, redeemed, verified, coreVars, chatVars>>

\* ============================================================ specifications
\* the chat service with k messages in its store
ChatInit(k) ==
  /\ messages = [i \in 1..k |-> PriorMessage(i)]
  /\ nextMessageId = k + 1
  /\ clock = k
  /\ connected = Conns
  /\ joined = [c \in Conns |-> {}]
  /\ inbox = [c \in Conns |-> <<>>]
  /\ task = [s \in Slots |-> NoTask]
  /\ lastIn = [conn |-> 0, event |-> "none", data |-> NoMessage]
  /\ joins = 0
  /\ sends = 0

StoreInit ==
  /\ restaurants = <<>>
  /\ reviews = <<>>
  /\ likes = <<>>
  /\ nextRestaurantId = 1
  /\ nextReviewId = 1
  /\ nextLikeId = 1
  /\ req = [s \in Slots |-> IdleReq]
  /\ likeTrail = <<>>
  /\ wrote = [s \in Slots |-> FALSE]

CoreInit == StoreInit /\ tally = NoTally

\* the auth service with its registered users and no reset pending
AuthInit ==
  /\ users = [u \in Registered |-> NewUser(u)]
  /\ areq = [s \in Slots |-> IdleAuth]
  /\ now = 0
  /\ spent = [u \in Registered |-> 0]
  /\ redeemed = [u \in Registered |-> 0]
  /\ verified = [u \in Registered |-> 0]

Init == CoreInit /\ ChatInit(0) /\ AuthInit

\* one recompute on any reviews one restaurant can have
InitRound ==
  /\ StoreInit /\ ChatInit(0) /\ AuthInit /\ serial = TRUE
  /\ tally \in {x \in TallyInputs : x.count <= x.sum /\ x.sum <= 5 * x.count}

SpecRound == InitRound /\ [][Recompute]_vars

\* requests served one at a time
InitSerial == Init /\ serial = TRUE

\* requests interleaved at the store calls
InitConcurrent == Init /\ serial = FALSE

RestaurantStep(s, in) ==
  \/ CreateRestaurantStart(s, in)
  \/ CreateRestaurantSave(s)
  \/ DeleteRestaurantStart(s, in)
  \/ DeleteRestaurantFind(s)
  \/ DeleteRestaurantReviews(s)
  \/ DeleteRestaurantLikes(s)

ReviewStep(s, in) ==
  \/ CreateReviewStart(s, in)
  \/ CreateReviewFindRestaurant(s)
  \/ CreateReviewSave(s)
  \/ CreateReviewRecompute(s)
  \/ CreateReviewSaveRestaurant(s)
  \/ UpdateReviewStart(s, in)
  \/ UpdateReviewFind(s)
  \/ UpdateReviewSave(s)
  \/ UpdateReviewRecompute(s)
  \/ UpdateReviewFindRestaurant(s)
  \/ UpdateReviewSaveRestaurant(s)
  \/ DeleteReviewStart(s, in)
  \/ DeleteReviewFind(s)
  \/ DeleteReviewDelete(s)
  \/ DeleteReviewRecompute(s)
  \/ DeleteReviewFindRestaurant(s)
  \/ DeleteReviewSaveRestaurant(s)
  \/ GetReviewsStart(s, in)
  \/ GetReviewsFind(s)

UpdateRestaurantStep(s, in) ==
  \/ UpdateRestaurantStart(s, in)
  \/ UpdateRestaurantUpdate(s)

LikeStep(s, in) ==
  \/ LikeStart(s, in)
  \/ LikeFindRestaurant(s)
  \/ LikeFindLike(s)
  \/ LikeDelete(s)
  \/ LikeSave(s)
  \/ GetLikeStart(s, in)
  \/ GetLikeFind(s)

\* PUT /restaurants/:id bodies: no aggregate path, a rating of 4.5, a
\* totalRatings of 15
RestaurantBodies ==
  {[rating |-> Unset, totalRatings |-> Unset],
   [rating |-> 450, totalRatings |-> Unset],
   [rating |-> Unset, totalRatings |-> 15]}

\* the inputs a specification draws its requests from
AllInputs ==
  [users    |-> UserIds,
   rids     |-> RestaurantIds \cup {Malformed},
   norid    |-> {Absent},
   vids     |-> ReviewIds \cup {Malformed},
   ratings  |-> RatingInputs,
   comments |-> CommentInputs,
   images   |-> ImageInputs,
   bodies   |-> RestaurantBodies]

\* one author, no comment or image stored: the aggregate depends on none of them
RatingInputsOnly ==
  [AllInputs EXCEPT !.users = {1}, !.comments = {Absent, 251}, !.images = {Absent, 2}]

\* two users reviewing one restaurant, with two ratings and no valid comment or image
OwnerInputs ==
  [AllInputs EXCEPT !.rids = {1, Malformed}, !.ratings = {Absent, 10, 50},
                    !.comments = {Absent, 251}, !.images = {Absent, 2}]

\* two users liking one restaurant
LikeInputs == [AllInputs EXCEPT !.rids = {1, Malformed}]

\* the cascade: reviews and likes carry only what the restaurant delete looks at
CascadeInputs ==
  [AllInputs EXCEPT !.users = {1}, !.ratings = {10, 60}, !.comments = {Absent},
                    !.images = {Absent}]

\* reviews: restaurant and review requests, one at a time
NextReviews ==
  \E s \in Slots : RestaurantStep(s, RatingInputsOnly) \/ ReviewStep(s, RatingInputsOnly)

SpecReviews == InitSerial /\ [][NextReviews]_vars

\* one author writing reviews of restaurant 1, the requests interleaved at the
\* store calls
RaceInputs ==
  [AllInputs EXCEPT !.users = {1}, !.rids = {1}, !.vids = {1}, !.ratings = {10, 50},
                    !.comments = {Absent}, !.images = {Absent}]

\* two users editing and deleting the reviews of restaurant 1, with and without
\* a comment that passes validation
EditInputs ==
  [AllInputs EXCEPT !.rids = {1}, !.vids = {1, 2}, !.ratings = {50},
                    !.comments = {Absent, 20}, !.images = {Absent}]

\* restaurant 1 as POST /restaurants leaves it, with no review yet
InitRace ==
  /\ restaurants = (1 :> NewRestaurant)
  /\ reviews = <<>>
  /\ likes = <<>>
  /\ nextRestaurantId = 2
  /\ nextReviewId = 1
  /\ nextLikeId = 1
  /\ req = [s \in Slots |-> IdleReq]
  /\ likeTrail = <<>>
  /\ wrote = [s \in Slots |-> FALSE]
  /\ tally = NoTally
  /\ serial = FALSE
  /\ ChatInit(0) /\ AuthInit

NextRace == \E s \in Slots : ReviewStep(s, RaceInputs)

SpecRace == InitRace /\ [][NextRace]_vars

\* restaurant and review requests, one at a time, on a store whose calls may fail
NextFaults ==
  \E s \in Slots :
    \/ RestaurantStep(s, RaceInputs)
    \/ ReviewStep(s, RaceInputs)
    \/ StoreCallFails(s)

SpecFaults == InitSerial /\ [][NextFaults]_vars

\* one user reviewing and liking restaurant 1 while it is deleted
OrphanInputs ==
  [AllInputs EXCEPT !.users = {1}, !.rids = {1}, !.ratings = {50},
                    !.comments = {Absent}, !.images = {Absent}]

\* DELETE /restaurants/:id, POST /reviews and POST /like interleaved at the
\* store calls
NextOrphan ==
  \E s \in Slots :
    \/ DeleteRestaurantStart(s, OrphanInputs)
    \/ DeleteRestaurantFind(s)
    \/ DeleteRestaurantReviews(s)
    \/ DeleteRestaurantLikes(s)
    \/ CreateReviewStart(s, OrphanInputs)
    \/ CreateReviewFindRestaurant(s)
    \/ CreateReviewSave(s)
    \/ CreateReviewRecompute(s)
    \/ CreateReviewSaveRestaurant(s)
    \/ LikeStart(s, OrphanInputs)
    \/ LikeFindRestaurant(s)
    \/ LikeFindLike(s)
    \/ LikeDelete(s)
    \/ LikeSave(s)

SpecOrphan == InitRace /\ [][NextOrphan]_vars

\* ownership: restaurant and review requests by two users, one at a time
NextOwner ==
  \E s \in Slots : RestaurantStep(s, OwnerInputs) \/ ReviewStep(s, OwnerInputs)

SpecOwner == InitSerial /\ [][NextOwner]_vars

\* restaurant 1 as two POST /reviews, of user 1 and then of user 2, leave it
InitEdit ==
  /\ restaurants = (1 :> [rating |-> 300, totalRatings |-> 2])
  /\ reviews = (1 :> [restaurantId |-> 1, userId |-> 1, userName |-> 1, rating |-> 1,
                      comment |-> 10, image |-> 1])
            @@ (2 :> [restaurantId |-> 1, userId |-> 2, userName |-> 2, rating |-> 5,
                      comment |-> 10, image |-> 1])
  /\ likes = <<>>
  /\ nextRestaurantId = 2
  /\ nextReviewId = 3
  /\ nextLikeId = 1
  /\ req = [s \in Slots |-> IdleReq]
  /\ likeTrail = <<>>
  /\ wrote = [s \in Slots |-> FALSE]
  /\ tally = NoTally
  /\ serial = FALSE
  /\ ChatInit(0) /\ AuthInit

\* the reviews edited and deleted, the requests interleaved at the store calls
NextEdit ==
  \E s \in Slots :
    \/ UpdateReviewStart(s, EditInputs)
    \/ UpdateReviewFind(s)
    \/ UpdateReviewSave(s)
    \/ UpdateReviewRecompute(s)
    \/ UpdateReviewFindRestaurant(s)
    \/ UpdateReviewSaveRestaurant(s)
    \/ DeleteReviewStart(s, EditInputs)
    \/ DeleteReviewFind(s)
    \/ DeleteReviewDelete(s)
    \/ DeleteReviewRecompute(s)
    \/ DeleteReviewFindRestaurant(s)
    \/ DeleteReviewSaveRestaurant(s)

SpecEdit == InitEdit /\ [][NextEdit]_vars

\* likes: restaurant and like requests
NextLikes ==
  \E s \in Slots : RestaurantStep(s, LikeInputs) \/ LikeStep(s, LikeInputs)

\* ... one at a time
SpecLikesSeq == InitSerial /\ [][NextLikes]_vars

\* ... interleaved at the store calls
SpecLikes == InitConcurrent /\ [][NextLikes]_vars

\* refusals: two users, one restaurant and one review addressed, one rating
ErrorInputs ==
  [AllInputs EXCEPT !.rids = {1, Malformed}, !.vids = {1, Malformed},
                    !.ratings = {Absent, 50}, !.comments = {Absent},
                    !.images = {Absent},
                    !.bodies = {[rating |-> 450, totalRatings |-> Unset]}]

\* every core route, one request at a time
NextErrors ==
  \E s \in Slots :
    \/ RestaurantStep(s, ErrorInputs)
    \/ UpdateRestaurantStep(s, ErrorInputs)
    \/ ReviewStep(s, ErrorInputs)
    \/ LikeStep(s, ErrorInputs)

SpecErrors == InitSerial /\ [][NextErrors]_vars

\* aggregate drift: one author, the restaurant update with its bodies
DriftInputs ==
  [AllInputs EXCEPT !.users = {1}, !.rids = {1, Malformed}, !.ratings = {10, 50},
                    !.comments = {Absent}, !.images = {Absent}]

\* restaurant create, update and delete with the review and like routes, one
\* request at a time
NextDrift ==
  \E s \in Slots :
    \/ RestaurantStep(s, DriftInputs)
    \/ UpdateRestaurantStep(s, DriftInputs)
    \/ ReviewStep(s, DriftInputs)
    \/ LikeStep(s, DriftInputs)

SpecDrift == InitSerial /\ [][NextDrift]_vars

\* the whole core service, one request at a time
NextCascade ==
  \E s \in Slots :
    RestaurantStep(s, CascadeInputs) \/ ReviewStep(s, CascadeInputs) \/ LikeStep(s, CascadeInputs)

SpecCascade == InitSerial /\ [][NextCascade]_vars

ChatStep(s, in) ==
  \/ JoinRoom(s, in)
  \/ JoinFind(s)
  \/ JoinEmit(s)
  \/ SendMessage(s, in)
  \/ SendSave(s)
  \/ SendBroadcast(s)
  \/ SendFailed(s)

\* the events the clients send: any room, at most one field of a message missing
SendInputs ==
  {d \in [userId : {Absent, 1}, userName : {Absent, 1}, message : TextInputs,
          room : Rooms \cup {NoRoom}] :
     /\ d.userId = Absent => d.userName # Absent /\ d.message = 1
     /\ d.userName = Absent => d.message = 1}

\* ... and the clock may stand still between two messages
ChatInputs ==
  [conns |-> Conns, rooms |-> Rooms, data |-> SendInputs, ticks |-> {0, 1}]

\* one client joining room general; every message is complete
HistoryInputs ==
  [ChatInputs EXCEPT !.conns = {1}, !.rooms = {"general"},
                     !.data = {d \in SendInputs : ~Lacks(d) /\ d.message = 1
                                                   /\ d.room # NoRoom}]

\* the clients in two rooms; every message is complete
RoomInputs ==
  [ChatInputs EXCEPT !.data = {d \in SendInputs : ~Lacks(d) /\ d.message = 1},
                     !.ticks = {1}]

\* ... every message names its room, and room general is the one joined
BroadcastInputs ==
  [RoomInputs EXCEPT !.rooms = {"general"},
                     !.data = {d \in RoomInputs.data : d.room # NoRoom}]

\* the clients in one room; messages of every kind
SendOnlyInputs == [ChatInputs EXCEPT !.rooms = {"general"}, !.ticks = {1}]

\* the chat service starting on a store of either size
InitHistory ==
  /\ CoreInit
  /\ AuthInit
  /\ serial = FALSE
  /\ \E k \in PriorCounts : ChatInit(k)

\* the chat service starting on an empty store
InitChat == Init /\ serial = FALSE

\* chat history: joins while messages are sent
NextHistory ==
  \/ \E s \in Slots : ChatStep(s, HistoryInputs)
  \/ \E c \in HistoryInputs.conns : Disconnect(c)

SpecHistory == InitHistory /\ [][NextHistory]_vars

\* chat rooms: two clients joining and sending
NextRooms ==
  \/ \E s \in Slots : ChatStep(s, RoomInputs)
  \/ \E c \in Conns : Disconnect(c)

SpecRooms == InitChat /\ [][NextRooms]_vars

\* chat broadcast: two clients joining and sending to the rooms by name; the
\* event loop runs the continuation of every save that has returned
NextBroadcast ==
  \/ \E s \in Slots : ChatStep(s, BroadcastInputs)
  \/ \E c \in Conns : Disconnect(c)

SpecBroadcast ==
  /\ InitChat
  /\ [][NextBroadcast]_vars
  /\ \A s \in Slots : WF_vars(SendBroadcast(s))

\* chat validation: messages with and without their fields
NextSend ==
  \/ \E s \in Slots : ChatStep(s, SendOnlyInputs)
  \/ \E c \in Conns : Disconnect(c)

SpecSend == InitChat /\ [][NextSend]_vars

GetMessagesStep(s, in) ==
  \/ GetMessages(s, in)
  \/ GetMessagesFind(s)

\* one client in room general, complete messages, GET /messages with and
\* without a limit
AppendInputs == [HistoryInputs EXCEPT !.ticks = {1}] @@ [limits |-> {NoLimit, "1"}]

\* every step of the chat service: the socket events and GET /messages
NextAppend ==
  \/ \E s \in Slots : ChatStep(s, AppendInputs)
  \/ \E s \in Slots : GetMessagesStep(s, AppendInputs)
  \/ \E c \in AppendInputs.conns : Disconnect(c)

SpecAppend == InitChat /\ [][NextAppend]_vars

\* join-room and send-message with and without a room name
BareInputs ==
  [RoomInputs EXCEPT !.rooms = {NoRoom, "general"},
                     !.data = {d \in RoomInputs.data : d.room # "support"}]

NextBare ==
  \/ \E s \in Slots : ChatStep(s, BareInputs)
  \/ \E c \in Conns : Disconnect(c)

SpecBare == InitChat /\ [][NextBare]_vars

RegisterStep(s, in) ==
  \/ RegisterStart(s, in)
  \/ RegisterFind(s)
  \/ RegisterSave(s)

\* the routes that take a new password
PasswordStep(s, in) ==
  \/ RegisterStep(s, in)
  \/ ResetRequestStart(s, in)
  \/ ResetRequestFind(s, in)
  \/ ResetRequestSave(s)
  \/ ResetRequestSend(s)
  \/ PasswordResetStart(s, in)
  \/ PasswordResetFind(s)
  \/ PasswordResetSave(s)

\* passwords of every shape, each confirmed by itself or by another one
PasswordOnlyInputs ==
  [emails |-> {1, 2}, codes |-> {1}, presented |-> {1}, names |-> {1},
   passwords |-> PasswordInputs, confirms |-> PasswordInputs]

\* ... one request at a time
NextPasswords == PasswordStep(1, PasswordOnlyInputs)

SpecPasswords == InitChat /\ [][NextPasswords]_vars

SendStep(s, in) ==
  \/ SendMessage(s, in)
  \/ SendSave(s)
  \/ SendBroadcast(s)
  \/ SendFailed(s)

\* GET /messages with every limit, on a store of either size that one client
\* adds messages to
QueryInputs == [HistoryInputs EXCEPT !.ticks = {1}] @@ [limits |-> LimitInputs]

NextQuery ==
  \/ \E s \in Slots : SendStep(s, QueryInputs)
  \/ \E s \in Slots : GetMessagesStep(s, QueryInputs)

SpecQuery == InitHistory /\ [][NextQuery]_vars

ResetStep(s, in) ==
  \/ ResetRequestStart(s, in)
  \/ ResetRequestFind(s, in)
  \/ ResetRequestSave(s)
  \/ ResetRequestSend(s)
  \/ VerifyCodeStart(s, in)
  \/ VerifyCodeFind(s)
  \/ PasswordResetStart(s, in)
  \/ PasswordResetFind(s)
  \/ PasswordResetSave(s)

LoginStep(s, in) ==
  \/ LoginStart(s, in)
  \/ LoginFind(s)
  \/ LoginCompare(s)

BearerStep(s, in) ==
  \/ GetVerifyStart(s, in)
  \/ GetVerifyFind(s)
  \/ GetProfileStart(s, in)
  \/ GetProfileFind(s)
  \/ PutProfileStart(s, in)
  \/ PutProfileUpdate(s)
  \/ CompleteSetupStart(s, in)
  \/ CompleteSetupUpdate(s)

\* password reset: the registered email and a free one, either code, a
\* password that passes and one that does not
ResetInputs ==
  [emails |-> {1, 2}, codes |-> ResetCodes, presented |-> ResetCodes \cup {Absent},
   passwords |-> {StrongPassword, WeakPassword}, confirms |-> {StrongPassword}]

\* the password reset flow, its requests interleaved at the store calls
NextReset ==
  \/ \E s \in Slots : ResetStep(s, ResetInputs)
  \/ Tick

SpecReset == InitChat /\ [][NextReset]_vars

\* logins with every kind of email, with the password of user 1, another
\* password and none
LoginInputs ==
  [emails |-> EmailInputs, passwords |-> {FirstPassword, StrongPassword, NoPassword}]

NextLogin == \E s \in Slots : LoginStep(s, LoginInputs)

SpecLogin == InitChat /\ [][NextLogin]_vars

\* the bearer-protected routes: every kind of token, names and setups that
\* pass validation and that do not
BearerInputs ==
  [tokens |-> TokenInputs, names |-> {Absent, Malformed, 2}, setups |-> {Absent, 1}]

NextBearer == \E s \in Slots : BearerStep(s, BearerInputs)

SpecBearer == InitChat /\ [][NextBearer]_vars

TypeOK ==
  /\ DOMAIN restaurants \subseteq RestaurantIds
  /\ DOMAIN reviews \subseteq ReviewIds
  /\ DOMAIN likes \subseteq LikeIds

\* ================================================================== claims
Abs(x) == IF x < 0 THEN -x ELSE x

Quiet == \A s \in Slots : Free(s)

\* C1: with no request in flight, every restaurant's totalRatings is the number
\* of stored reviews that reference it and its rating is their mean rounded to
\* 2 decimals (within half a hundredth of the exact mean); both are 0 when no
\* review references it.
C1_RatingIsMean ==
  Quiet =>
    \A r \in DOMAIN restaurants :
      LET mine == {v \in DOMAIN reviews : reviews[v].restaurantId = r}
          n    == Cardinality(mine)
          sum  == SumRatings(reviews, mine)
      IN  /\ restaurants[r].totalRatings = n
          /\ IF n = 0 THEN restaurants[r].rating = 0
             ELSE 2 * Abs(100 * sum - restaurants[r].rating * n) <= n

\* C1 witness: a review update has completed on a restaurant with three reviews
\* whose mean is not a multiple of 0.5, so the rounding has acted.
C1_Witness ==
  /\ req[1].pc = "done" /\ req[1].op = "updateReview" /\ req[1].status = 200
  /\ \E r \in DOMAIN restaurants :
       /\ restaurants[r].totalRatings = 3
       /\ restaurants[r].rating % 50 # 0

C3_ToggleInvolution ==
  /\ \A i \in 1..Len(likeTrail) :
       LET e == likeTrail[i] IN
         /\ e.liked = (<<e.rid, e.user>> \notin e.before)
         /\ e.liked = (<<e.rid, e.user>> \in e.after)
  /\ Len(likeTrail) = 2 =>
       /\ likeTrail[2].liked = ~likeTrail[1].liked
       /\ likeTrail[2].before = likeTrail[1].after
       /\ likeTrail[2].after = likeTrail[1].before

\* C3 witness: an unlike followed by a like, after an earlier like.
C3_Witness ==
  /\ Len(likeTrail) = 2
  /\ ~likeTrail[1].liked /\ likeTrail[2].liked
  /\ nextLikeId = 3

\* C4: the Like collection never holds two documents for one (restaurant, user).
C4_OneLikePerPair ==
  \A a, b \in DOMAIN likes :
    (likes[a].restaurantId = likes[b].restaurantId /\ likes[a].userId = likes[b].userId)
      => a = b

\* C4 witness: a handler that saw no Like is about to insert while the pair is
\* already stored by a concurrent request.
C4_Witness ==
  \E s \in Slots :
    /\ req[s].op = "like" /\ req[s].pc = "saveLike"
    /\ \E l \in DOMAIN likes :
         likes[l].restaurantId = req[s].rid /\ likes[l].userId = req[s].user

\* C5: an insert attempt of POST /like always ends in 200 with liked:true; when
\* the pair is already stored the store is left as it is, otherwise exactly the
\* new Like is added; and a POST /like answers 500 only for a malformed id.
C5_DuplicateIsSuccess ==
  [][\A s \in Slots :
       /\ (req[s].op = "like" /\ req[s].pc = "saveLike" /\ req'[s] # req[s])
          => /\ req'[s].pc = "done" /\ req'[s].status = 200 /\ req'[s].liked
             /\ IF <<req[s].rid, req[s].user>> \in LikePairs
                THEN likes' = likes
                ELSE /\ DOMAIN likes' = DOMAIN likes \cup {req[s].lid}
                     /\ req[s].lid \notin DOMAIN likes
                     /\ likes'[req[s].lid] = [restaurantId |-> req[s].rid, userId |-> req[s].user]
       /\ (req'[s].op = "like" /\ req'[s].pc = "done" /\ req'[s].status = 500)
          => req'[s].rid = Malformed
    ]_vars

\* C5 witness: two requests for one pair both tried the insert; one was
\* answered "liked", the other "already liked".
C5_Witness ==
  \E s, t \in Slots :
    /\ req[s].pc = "done" /\ req[t].pc = "done"
    /\ req[s].op = "like" /\ req[t].op = "like"
    /\ req[s].rid = req[t].rid /\ req[s].user = req[t].user
    /\ req[s].msg = "Restaurant liked"
    /\ req[t].msg = "Restaurant already liked" /\ req[t].status = 200 /\ req[t].liked
    /\ Cardinality({l \in DOMAIN likes : likes[l].restaurantId = req[s].rid
                                         /\ likes[l].userId = req[s].user}) = 1

\* C6: once DELETE /restaurants/:id has answered 200, no review and no like
\* references the restaurant, and a GET /reviews of a deleted restaurant
\* answers the empty list.
C6_CascadeComplete ==
  /\ (req[1].pc = "done" /\ req[1].op = "deleteRestaurant" /\ req[1].status = 200)
       => /\ \A v \in DOMAIN reviews : reviews[v].restaurantId # req[1].rid
          /\ \A l \in DOMAIN likes : likes[l].restaurantId # req[1].rid
  /\ ( /\ req[1].pc = "done" /\ req[1].op = "getReviews" /\ req[1].status = 200
       /\ req[1].rid < nextRestaurantId /\ req[1].rid \notin DOMAIN restaurants )
       => req[1].body = {}

\* C6 witness: a restaurant delete that removed reviews and likes has answered.
C6_Witness ==
  /\ req[1].pc = "done" /\ req[1].op = "deleteRestaurant" /\ req[1].status = 200
  /\ req[1].removed[1] > 0 /\ req[1].removed[2] > 0
  /\ DOMAIN reviews # {} /\ DOMAIN likes # {}

\* the socket gained an event in this step; each step emits at most one to a socket
Gained(c) == Len(inbox'[c]) = Len(inbox[c]) + 1

NewEvent(c) == inbox'[c][Len(inbox'[c])]

Ids(h) == {h[i].id : i \in 1..Len(h)}

\* h holds exactly the min(50, n) latest stored messages of the room, oldest first
IsRecentHistory(h, room) ==
  LET R == MessagesOf(room)
      n == Cardinality(R)
  IN  /\ Len(h) = (IF n < HistoryLimit THEN n ELSE HistoryLimit)
      /\ \A i \in 1..Len(h) : h[i].id \in R /\ h[i] = messages[h[i].id]
      /\ \A i, j \in 1..Len(h) :
           i < j => h[i].id # h[j].id /\ h[i].createdAt <= h[j].createdAt
      /\ \A m \in R \ Ids(h) : \A i \in 1..Len(h) :
           messages[m].createdAt <= h[i].createdAt

\* C7: the answer to the history query of join-room(r) is exactly the
\* min(50, n) most recently created messages stored for r when the query runs,
\* none of another room, in ascending createdAt order; the handler then emits
\* it in one message-history event to the joining socket and to no other, and
\* a socket gains a message-history event in no other way.
C7_JoinHistory ==
  [][ /\ \A s \in Slots :
           (task[s].pc = "find" /\ task'[s].pc = "emit")
             => IsRecentHistory(task'[s].result, task[s].room)
      /\ \A s \in Slots :
           (task[s].pc = "emit" /\ task'[s].pc # "emit")
             => /\ task[s].conn \in connected => Gained(task[s].conn)
                /\ \A c \in Conns : c # task[s].conn => inbox'[c] = inbox[c]
      /\ \A c \in Conns :
           (Gained(c) /\ NewEvent(c).event = "message-history")
             => \E s \in Slots :
                  /\ task[s].kind = "join" /\ task[s].pc = "emit" /\ task[s].conn = c
                  /\ task'[s] = NoTask
                  /\ NewEvent(c).messages = task[s].result ]_vars

\* C7 witness: a socket holds a history of 50 messages of a room that stores
\* more than 50, two of them created at the same time.
C7_Witness ==
  \E c \in Conns : \E i \in 1..Len(inbox[c]) :
    /\ inbox[c][i].event = "message-history"
    /\ Len(inbox[c][i].messages) = HistoryLimit
    /\ Cardinality(MessagesOf("general")) > HistoryLimit
    /\ Tied(MessagesOf("general")) # {}

\* C8: a socket gains a receive-message event only for a message whose room it
\* has joined; a socket that has joined another room only, or none, gains none.
C8_NoCrossRoom ==
  [][ \A c \in Conns :
        (Gained(c) /\ NewEvent(c).event = "receive-message")
          => /\ NewEvent(c).message.room \in joined[c]
             /\ \E s \in Slots : /\ task[s].pc = "broadcast"
                                 /\ task[s].doc = NewEvent(c).message
                                 /\ task[s].room = task[s].doc.room ]_vars

\* C8 witness: after both joins, a message to room general has reached the socket
\* that joined general and not the socket that joined room support only.
C8_Witness ==
  \E c, d \in Conns :
    /\ lastIn.event = "send-message" /\ RoomOf(lastIn.data) = "general"
    /\ joined[c] = {"support"} /\ "general" \in joined[d]
    /\ \A s \in Slots : TaskFree(s)
    /\ \E i \in 1..Len(inbox[d]) :
         /\ inbox[d][i].event = "receive-message"
         /\ inbox[d][i].message.id = nextMessageId - 1
         /\ inbox[d][i].message.room = "general"
    /\ \A i \in 1..Len(inbox[c]) : inbox[c][i].event # "receive-message"

\* the sockets joined to the room
Members(room) == {c \in connected : room \in joined[c]}

\* the broadcast of a saved message reaches exactly the members of its room
Delivered(s) ==
  /\ task[s].doc.id \in DOMAIN messages
  /\ messages[task[s].doc.id] = task[s].doc
  /\ \A c \in Conns :
       IF c \in Members(task[s].room)
       THEN /\ Gained(c)
            /\ NewEvent(c).event = "receive-message"
            /\ NewEvent(c).message.id = task[s].doc.id
            /\ NewEvent(c).message.createdAt = messages[task[s].doc.id].createdAt
            /\ NewEvent(c).message = messages[task[s].doc.id]
       ELSE inbox'[c] = inbox[c]

\* C9 as stated: ... and the sender, while connected, is a recipient of every
\* broadcast of its message.
C9_SenderAlwaysRecipient ==
  [][ \A s \in Slots :
        (task[s].pc = "broadcast" /\ task'[s].pc # "broadcast")
          => /\ Delivered(s)
             /\ task[s].conn \in connected => Gained(task[s].conn) ]_vars

\* C9: once a complete send-message is saved, its handler goes on to the
\* broadcast, which delivers a receive-message event with the stored message's
\* id and createdAt to every socket that is in the target room at that moment
\* and to no other; the sender is a recipient exactly when it is in that room.
C9_BroadcastToMembers ==
  /\ [][ \A s \in Slots :
           (task[s].pc = "broadcast" /\ task'[s].pc # "broadcast")
             => /\ Delivered(s)
                /\ Gained(task[s].conn) <=> task[s].conn \in Members(task[s].room) ]_vars
  /\ \A s \in Slots : (task[s].pc = "broadcast") ~> (task[s].pc # "broadcast")

\* C9 witness: a message sent after both sockets joined a room has reached both.
C9_Witness ==
  /\ lastIn.event = "send-message"
  /\ \A s \in Slots : TaskFree(s)
  /\ \A c \in Conns :
       /\ RoomOf(lastIn.data) \in joined[c]
       /\ \E i \in 1..Len(inbox[c]) :
            /\ inbox[c][i].event = "receive-message"
            /\ inbox[c][i].message.id = nextMessageId - 1
            /\ inbox[c][i].message.room = RoomOf(lastIn.data)

\* C10: a send-message event without userId, userName or message emits one
\* error event, to the sender only, starts no save and no broadcast and stores
\* nothing; an event with the three fields is no error whatever its room, and
\* its message is built, stored and broadcast for the room given, general when
\* none is.
C10_MissingFields ==
  [][ /\ sends' = sends + 1
        => LET c == lastIn'.conn
               d == lastIn'.data
           IN  IF Lacks(d)
               THEN /\ inbox' = [inbox EXCEPT ![c] =
                                   Append(@, ErrorEvent("Missing required fields"))]
                    /\ messages' = messages
                    /\ task' = task
               ELSE /\ inbox' = inbox
                    /\ messages' = messages
                    /\ \E s \in Slots :
                         /\ TaskFree(s)
                         /\ task'[s].kind = "send" /\ task'[s].conn = c
                         /\ task'[s].room = (IF d.room = NoRoom THEN "general" ELSE d.room)
                         /\ task'[s].doc.room = task'[s].room
                         /\ task'[s].doc.userId = d.userId
                         /\ task'[s].doc.userName = d.userName
      /\ \A s \in Slots :
           (task[s].pc = "save" /\ task'[s].pc = "broadcast")
             => /\ task[s].doc.id \notin DOMAIN messages
                /\ messages'[task[s].doc.id] = task[s].doc
                /\ task'[s].room = task[s].doc.room
      /\ \A s \in Slots :
           (task[s].pc = "broadcast" /\ task'[s].pc # "broadcast")
             => \A c \in Conns : Gained(c) <=> c \in Members(task[s].doc.room)
      /\ \A i \in DOMAIN messages' \ DOMAIN messages :
           /\ messages'[i].userId # Absent
           /\ messages'[i].userName # Absent
           /\ messages'[i].message # Absent ]_vars

\* C10 witness: one socket was refused a message without a field and the other,
\* in room general, was not told; then a message without a room was stored in
\* room general and reached the socket in that room.
C10_Witness ==
  \E c, d \in Conns :
    /\ c # d /\ c \in connected /\ d \in connected
    /\ "general" \in joined[d]
    /\ \E i \in 1..Len(inbox[c]) :
         inbox[c][i].event = "error" /\ inbox[c][i].error = "Missing required fields"
    /\ \A i \in 1..Len(inbox[d]) : inbox[d][i].event # "error"
    /\ lastIn.event = "send-message" /\ lastIn.data.room = NoRoom /\ ~Lacks(lastIn.data)
    /\ \A s \in Slots : TaskFree(s)
    /\ nextMessageId - 1 \in DOMAIN messages
    /\ messages[nextMessageId - 1].room = "general"
    /\ \E i \in 1..Len(inbox[d]) :
         /\ inbox[d][i].event = "receive-message"
         /\ inbox[d][i].message.id = nextMessageId - 1

\* the positions of the receive-message events in a socket's inbox
Lives(c) == {i \in 1..Len(inbox[c]) : inbox[c][i].event = "receive-message"}

\* the positions of the message-history events in a socket's inbox
Histories(c) == {i \in 1..Len(inbox[c]) : inbox[c][i].event = "message-history"}

\* C11: the receive-message events of one room reach a socket in the order of
\* their messages' createdAt: none comes after one of the same room that was
\* created later.
C11_BroadcastInCreationOrder ==
  \A c \in Conns : \A i, j \in Lives(c) :
    (i < j /\ inbox[c][i].message.room = inbox[c][j].message.room)
      => inbox[c][i].message.createdAt <= inbox[c][j].message.createdAt

\* C12: a socket holds a message both in a message-history event and as a
\* receive-message event only when the receive-message came first, and never
\* after one join-room and one send-message alone.
C12_DuplicateOnlyAfterLive ==
  \A c \in Conns : \A i \in Histories(c), j \in Lives(c) :
    inbox[c][j].message.id \in Ids(inbox[c][i].messages)
      => j < i /\ ~(joins = 1 /\ sends = 1)

\* C13: a core request that is answered 400, 403 or 404 has changed no stored
\* Restaurant, Review or Like at any of its steps.
C13_RefusedWritesNothing ==
  [][ \A s \in Slots :
        (req'[s] # req[s] /\ req'[s].pc = "done" /\ req'[s].status \in {400, 403, 404})
          => /\ ~wrote[s]
             /\ restaurants' = restaurants
             /\ reviews' = reviews
             /\ likes' = likes ]_vars

\* C13 witness: POST /like for the well-formed id of a deleted restaurant was
\* answered 404 while another restaurant was stored.
C13_Witness ==
  /\ req[1].pc = "done" /\ req[1].op = "like" /\ req[1].status = 404
  /\ req[1].rid \in RestaurantIds \ DOMAIN restaurants
  /\ req[1].rid < nextRestaurantId
  /\ DOMAIN restaurants # {}

\* in the collections rs and vs, the aggregate of restaurant r is the count and
\* the rounded mean of its reviews
AggregateIn(rs, vs, r) ==
  LET mine == {v \in DOMAIN vs : vs[v].restaurantId = r}
      n    == Cardinality(mine)
      sum  == SumRatings(vs, mine)
  IN  /\ rs[r].totalRatings = n
      /\ IF n = 0 THEN rs[r].rating = 0
         ELSE 2 * Abs(100 * sum - rs[r].rating * n) <= n

\* C14: with no request in flight, every restaurant's rating and totalRatings
\* are the rounded mean and the count of its stored reviews, 0 and 0 without
\* any, also when restaurants are created, updated and deleted.
C14_AggregateAlways ==
  Quiet => \A r \in DOMAIN restaurants : AggregateIn(restaurants, reviews, r)

\* C15: when a review create, update or delete is answered with success, the
\* restaurant it recomputed has the rounded mean and the count of its reviews,
\* whatever it held before.
C15_RecomputeCorrectsDrift ==
  [][ \A s \in Slots :
        ( /\ req[s].pc # "done" /\ req'[s].pc = "done"
          /\ req'[s].op \in {"createReview", "updateReview", "deleteReview"}
          /\ req'[s].status \in {200, 201} )
          => /\ req[s].doc.id \in DOMAIN restaurants'
             /\ AggregateIn(restaurants', reviews', req[s].doc.id) ]_vars

\* the requests of one operation that have been answered
Answered(op) == {s \in Slots : areq[s].op = op /\ areq[s].pc = "done"}

\* C16: two POST /password-reset-request with well-formed emails, one of a
\* registered user and one of nobody, get the same status code and the same
\* response body, also when the email cannot be sent
C16_ResponseIndependentOfAccount ==
  \A s, t \in Answered("passwordResetRequest") :
    ( /\ validateEmail(areq[s].email) /\ validateEmail(areq[t].email)
      /\ UsersByEmail(areq[s].email) # {}
      /\ UsersByEmail(areq[t].email) = {} )
      => /\ areq[s].status = areq[t].status
         /\ areq[s].body = areq[t].body

\* the reset paths of a user
ResetPaths(u) == <<users[u].resetCode, users[u].resetToken, users[u].resetTokenExpiry>>

\* C17: from a successful POST /password-reset until a code is next issued to
\* the user, the user's resetCode, resetToken and resetTokenExpiry are null,
\* and every POST /verify-reset-code or POST /password-reset that arrives in
\* that time with the consumed code is answered 400 without writing the user
C17_ConsumedCodeIsDead ==
  /\ [](\A u \in DOMAIN users : spent[u] # 0 => ResetPaths(u) = <<Null, Null, Null>>)
  /\ [][ \A s \in Slots :
           ( /\ areq'[s] # areq[s]
             /\ areq'[s].pc = "done"
             /\ areq'[s].op \in {"verifyResetCode", "passwordReset"}
             /\ areq'[s].stale )
             => /\ areq'[s].status = 400
                /\ ~areq'[s].written
                /\ users'[Holder(areq'[s].email)].password
                     = users[Holder(areq'[s].email)].password ]_vars

\* a reset has succeeded, and a later request with the consumed code and a
\* passing body has queried the store and been refused
C17_Witness ==
  \E s \in Slots :
    /\ areq[s].pc = "done"
    /\ areq[s].op = "passwordReset"
    /\ areq[s].stale
    /\ areq[s].read
    /\ areq[s].status = 400
    /\ spent[1] = areq[s].code
    /\ users[1].password = StrongPassword
    /\ ResetPaths(1) = <<Null, Null, Null>>

\* C18: between two issues of a code to a user, at most one POST
\* /password-reset succeeds for that user, however the requests interleave
C18_CodeSingleUse ==
  \A u \in DOMAIN users : redeemed[u] <= 1

BearerRoutes == {"getVerify", "getProfile", "putProfile", "completeSetup"}

\* C19: a request to GET /verify, GET /profile, PUT /profile or POST
\* /profile/complete-setup with a missing, invalid or expired token is
\* answered 401 and has neither read nor written a user
C19_BadTokenIs401 ==
  \A s \in Slots :
    ( /\ areq[s].pc = "done"
      /\ areq[s].op \in BearerRoutes
      /\ areq[s].token \in {"missing", "invalid", "expired"} )
      => /\ areq[s].status = 401
         /\ ~areq[s].read
         /\ ~areq[s].written

\* C20: no step of the chat service (join-room, send-message, GET /messages,
\* disconnect) removes a stored Message or changes its userId, userName,
\* message, room or createdAt
C20_AppendOnly ==
  [][ \A i \in DOMAIN messages :
        /\ i \in DOMAIN messages'
        /\ messages'[i].userId = messages[i].userId
        /\ messages'[i].userName = messages[i].userName
        /\ messages'[i].message = messages[i].message
        /\ messages'[i].room = messages[i].room
        /\ messages'[i].createdAt = messages[i].createdAt ]_vars

\* two messages are stored, the second after a join-room got the first as its
\* history; GET /messages has returned both and the socket has disconnected
C20_Witness ==
  /\ Cardinality(DOMAIN messages) = 2
  /\ connected # Conns
  /\ \E c \in Conns \ connected : \E i \in Histories(c) : Len(inbox[c][i].messages) = 1
  /\ \E s \in Slots : /\ task[s].kind = "get"
                      /\ task[s].pc = "done"
                      /\ task[s].status = 200
                      /\ Len(task[s].result) = 2

\* h holds exactly the min(n, stored) latest stored messages of the room, oldest first
IsLatest(h, room, n) ==
  LET R == MessagesOf(room)
      k == Cardinality(R)
  IN  /\ Len(h) = (IF k < n THEN k ELSE n)
      /\ \A i \in 1..Len(h) : h[i].id \in R /\ h[i] = messages[h[i].id]
      /\ \A i, j \in 1..Len(h) :
           i < j => h[i].id # h[j].id /\ h[i].createdAt <= h[j].createdAt
      /\ \A m \in R \ Ids(h) : \A i \in 1..Len(h) :
           messages[m].createdAt <= h[i].createdAt

\* C21: the 200 answer of GET /messages?room=r&limit=N is the min(N, stored)
\* most recently created messages stored for r when the query runs, oldest
\* first, for every integer N; r is "general" and N is 50 when absent
C21_LatestN ==
  [][ \A s \in Slots :
        ( /\ task[s].kind = "get" /\ task[s].pc = "find"
          /\ task'[s].pc = "done" /\ task'[s].status = 200 )
          => IsLatest(task'[s].result, task[s].room, task[s].limit) ]_vars

\* C22: a join-room sent without a room name puts the socket in room
\* "general", its history query answers with the history of "general", and
\* the socket then gains every message broadcast to "general"
C22_BareJoinIsGeneral ==
  [][ /\ (joins' = joins + 1 /\ lastIn'.data.room = NoRoom)
           => "general" \in joined'[lastIn'.conn]
      /\ \A s \in Slots :
           (task[s].pc = "find" /\ task'[s].pc = "emit" /\ task[s].room = NoRoom)
             => IsRecentHistory(task'[s].result, "general")
      /\ \A s \in Slots :
           ( /\ task[s].kind = "send" /\ task[s].pc = "broadcast"
             /\ task'[s].pc # "broadcast" /\ task[s].room = "general" )
             => \A c \in connected : NoRoom \in joined[c] => Gained(c) ]_vars

\* C23: GET /likes/:restaurantId answers liked:true exactly when a Like of the
\* restaurant by the user is stored when it reads, it changes no collection,
\* and right after a POST /like of the same user and restaurant answered
\* liked:X it answers liked:X
C23_LikeStatus ==
  [][ \A s \in Slots :
        (req[s].op = "getLike" /\ req[s].pc = "findLike" /\ req'[s].pc = "done")
          => /\ (req'[s].status = 200 /\ req'[s].liked)
                  <=> LikesOf(req[s].rid, req[s].user) # {}
             /\ <<restaurants, reviews, likes>>' = <<restaurants, reviews, likes>>
             /\ ~wrote[s]
             /\ ( /\ likeTrail # <<>>
                  /\ likeTrail[Len(likeTrail)].user = req[s].user
                  /\ likeTrail[Len(likeTrail)].rid = req[s].rid )
                  => /\ req'[s].status = 200
                     /\ req'[s].liked = likeTrail[Len(likeTrail)].liked ]_vars

\* a like, an unlike and a like of one pair, then the status read as liked
C23_Witness ==
  /\ req[1].op = "getLike" /\ req[1].pc = "done"
  /\ req[1].status = 200 /\ req[1].liked
  /\ nextLikeId = 3
  /\ LikesOf(req[1].rid, req[1].user) # {}

\* a password of at least 8 characters with a lowercase letter, an uppercase
\* letter, a digit and a symbol
MeetsPolicy(p) ==
  /\ PasswordLength(p) >= 8
  /\ p.lower >= 1 /\ p.upper >= 1 /\ p.digit >= 1 /\ p.symbol >= 1

\* C24: POST /register and POST /password-reset go past their validation, and
\* store a password, only when the password meets the policy; a request with
\* any other password is answered 400 and writes no user
C24_PasswordPolicy ==
  \A s \in Slots :
    areq[s].op \in {"register", "passwordReset"} =>
      /\ (areq[s].pc # "done" \/ areq[s].status \in {200, 201})
           => MeetsPolicy(areq[s].newPassword)
      /\ (areq[s].pc = "done" /\ ~MeetsPolicy(areq[s].newPassword))
           => /\ areq[s].status = 400
              /\ ~areq[s].written
      /\ \A u \in DOMAIN users :
           users[u].password = FirstPassword \/ MeetsPolicy(users[u].password)

\* "abcdefgh" has been refused at registration and "Abcdef1!" has been
\* accepted, once by POST /register and once by POST /password-reset
C24_Witness ==
  /\ areq[1].op = "register" /\ areq[1].pc = "done" /\ areq[1].status = 400
  /\ areq[1].newPassword = WeakPassword
  /\ users[1].password = StrongPassword
  /\ 2 \in DOMAIN users /\ users[2].password = StrongPassword

\* C25: the rating the recompute writes for a non-empty collection of reviews
\* with integer ratings 1 to 5 is the exact mean rounded half up to 2
\* decimals: rating * 100 = floor(100 * sum / count + 1/2).
C25_RoundHalfUp ==
  tally.rating # Unset =>
    tally.rating = (200 * tally.sum + tally.count) \div (2 * tally.count)

\* restaurant r's stored rating or totalRatings is not the rounded mean or the
\* count of its stored reviews
Drifted(r) ==
  /\ r \in DOMAIN restaurants
  /\ LET mine == ReviewsOf(r) IN
       \/ restaurants[r].totalRatings # Cardinality(mine)
       \/ restaurants[r].rating #
            (IF mine = {} THEN 0 ELSE ToFixed2(SumRatings(reviews, mine), Cardinality(mine)))

\* C26: the recompute is not atomic. The restaurant save that ends a review
\* write with success leaves in each of rating and totalRatings either the
\* value the handler computed from the reviews it read at its own find, or the
\* value already stored, whatever the reviews stored by then; and no step taken
\* while no request is in flight repairs a restaurant whose aggregate differs
\* from its stored reviews.
C26_StaleAggregate ==
  [][ /\ \A s \in Slots :
          ( /\ req[s].pc = "saveRestaurantDoc"
            /\ req'[s].pc = "done" /\ req'[s].status \in {200, 201} )
          => /\ restaurants'[req[s].doc.id].rating
                  \in {req[s].setRating, restaurants[req[s].doc.id].rating}
             /\ restaurants'[req[s].doc.id].totalRatings
                  \in {req[s].setTotal, restaurants[req[s].doc.id].totalRatings}
      /\ \A r \in RestaurantIds :
          (Quiet /\ Drifted(r) /\ r \in DOMAIN restaurants') => Drifted(r)'
    ]_vars

\* C26 witness: two POST /reviews on restaurant 1 have both been answered 201
\* and the restaurant counts one review while two are stored.
C26_Witness ==
  /\ \A s \in Slots :
       req[s].op = "createReview" /\ req[s].pc = "done" /\ req[s].status = 201
  /\ Cardinality(ReviewsOf(1)) = 2
  /\ restaurants[1].totalRatings = 1
  /\ Drifted(1)

\* the handler has written its review change and has not answered
AfterReviewWrite(r) ==
  \/ r.op = "createReview" /\ r.pc \in {"findReviews", "saveRestaurantDoc"}
  \/ /\ r.op \in {"updateReview", "deleteReview"}
     /\ r.pc \in {"findReviews", "findRestaurant", "saveRestaurantDoc"}

\* the review change of handler r is in the Review collection
ReviewChangeStored(r) ==
  CASE r.op = "createReview" -> r.vid \in DOMAIN reviews /\ reviews[r.vid] = r.upd
    [] r.op = "updateReview" -> r.vid \in DOMAIN reviews /\ reviews[r.vid] = r.upd
    [] OTHER -> r.vid \notin DOMAIN reviews

\* C27: a review handler that has saved, updated or deleted its review ends
\* with its success status or with 500; every step it takes that is not its
\* successful end (a store call that fails, a restaurant that cannot be loaded
\* or saved) leaves the Restaurant and Review collections as they were, with
\* the review change in the store: nothing is rolled back and the restaurant
\* keeps its rating and totalRatings.
C27_NoRollback ==
  [][\A s \in Slots :
       (AfterReviewWrite(req[s]) /\ req'[s] # req[s]) =>
         /\ req'[s].pc = "done" => req'[s].status \in {200, 201, 500}
         /\ ~(req'[s].pc = "done" /\ req'[s].status \in {200, 201}) =>
              /\ restaurants' = restaurants
              /\ reviews' = reviews
              /\ ReviewChangeStored(req[s])
    ]_vars

\* C27 witness: PUT /reviews/1 changed the rating of the only review from 1 to
\* 5 and was answered 500; the restaurant still has rating 1.00 of 1 review.
C27_Witness ==
  /\ req[1].op = "updateReview" /\ req[1].pc = "done" /\ req[1].status = 500
  /\ nextReviewId = 2
  /\ 1 \in DOMAIN reviews /\ reviews[1].rating = 5
  /\ 1 \in DOMAIN restaurants
  /\ restaurants[1] = [rating |-> 100, totalRatings |-> 1]

\* the events connection c gains in the step
NewEvents(c) == {inbox'[c][i] : i \in (Len(inbox[c]) + 1)..Len(inbox'[c])}

\* C28: every receive-message event a connection gains carries a message
\* that was stored before the step that emits it; a save that fails stores
\* nothing and emits nothing, and the step after it emits no receive-message
\* and appends the error event "Failed to send message" to the sender's
\* socket (which receives it while it is connected).
C28_StoredBeforeBroadcast ==
  [][ /\ \A c \in Conns : \A e \in NewEvents(c) :
          e.event = "receive-message" =>
            /\ e.message.id \in DOMAIN messages
            /\ messages[e.message.id] = e.message
      /\ \A s \in Slots :
          /\ (task[s].kind = "send" /\ task[s].pc = "save" /\ task'[s].pc = "failed") =>
               /\ messages' = messages /\ inbox' = inbox
               /\ task[s].doc.id \notin DOMAIN messages
          /\ (task[s].kind = "send" /\ task[s].pc = "failed" /\ task'[s] # task[s]) =>
               /\ task[s].doc.id \notin DOMAIN messages'
               /\ \A c \in Conns :
                    inbox'[c] = IF c = task[s].conn /\ c \in connected
                                THEN Append(inbox[c], ErrorEvent("Failed to send message"))
                                ELSE inbox[c]
    ]_vars

\* C28 witness: a connection has received the error of a failed save and a
\* receive-message of a stored message, and one of the two message ids issued
\* is not in the store.
C28_Witness ==
  /\ nextMessageId = 3 /\ Cardinality(DOMAIN messages) = 1
  /\ \E c \in Conns :
       /\ \E i \in 1..Len(inbox[c]) : inbox[c][i] = ErrorEvent("Failed to send message")
       /\ \E i \in 1..Len(inbox[c]) :
            /\ inbox[c][i].event = "receive-message"
            /\ inbox[c][i].message.id \in DOMAIN messages

LikesOn(rid) == {l \in DOMAIN likes : likes[l].restaurantId = rid}

\* C29: DELETE /restaurants/:id on a stored restaurant removes it, then
\* deletes every review that references it while the likes are still as they
\* were, then deletes every like that references it, and answers 200 in the
\* step that follows the second deletion and in no other; on an id of no
\* stored restaurant it answers 404 (500 when the id is malformed) and no
\* restaurant, review or like is deleted.
C29_CascadeOrder ==
  [][\A s \in Slots :
       (req[s].op = "deleteRestaurant" /\ req[s].pc # "done" /\ req'[s] # req[s]) =>
         LET rid == req[s].rid IN
         /\ (req'[s].pc = "done" /\ req'[s].status = 200) => req[s].pc = "deleteLikes"
         /\ req[s].pc = "findAndDeleteRestaurant" =>
              IF rid \in DOMAIN restaurants
              THEN /\ DOMAIN restaurants' = DOMAIN restaurants \ {rid}
                   /\ req'[s].pc = "deleteReviews"
                   /\ reviews' = reviews /\ likes' = likes
              ELSE /\ req'[s].pc = "done"
                   /\ req'[s].status = (IF rid = Malformed THEN 500 ELSE 404)
                   /\ restaurants' = restaurants /\ reviews' = reviews /\ likes' = likes
         /\ req[s].pc = "deleteReviews" =>
              /\ DOMAIN reviews' = DOMAIN reviews \ ReviewsOf(rid)
              /\ likes' = likes
              /\ req'[s].pc = "deleteLikes"
         /\ req[s].pc = "deleteLikes" =>
              /\ ReviewsOf(rid) = {}
              /\ reviews' = reviews
              /\ DOMAIN likes' = DOMAIN likes \ LikesOn(rid)
              /\ req'[s].pc = "done" /\ req'[s].status = 200
    ]_vars

\* C29 witness: the delete of a restaurant that had reviews and likes has
\* answered 200; the restaurant, its reviews and its likes are gone.
C29_Witness ==
  /\ req[1].op = "deleteRestaurant" /\ req[1].pc = "done" /\ req[1].status = 200
  /\ req[1].removed[1] >= 1 /\ req[1].removed[2] >= 1
  /\ req[1].rid \notin DOMAIN restaurants
  /\ ReviewsOf(req[1].rid) = {} /\ LikesOn(req[1].rid) = {}

\* the presented (email, code) is the stored pair of a user whose reset has
\* not expired: the current time is strictly earlier than its expiry
CodeValid(email, code) ==
  LET u == Holder(email) IN
    /\ u # 0
    /\ users[u].resetCode # Null /\ users[u].resetCode = code
    /\ users[u].resetTokenExpiry # Null /\ now < users[u].resetTokenExpiry

\* C30: a password-reset-request stores as expiry the time it is processed
\* plus 15 minutes; the lookup of verify-reset-code and of password-reset goes
\* on to success exactly when the presented (email, code) is a user's stored
\* pair and the time is strictly earlier than that expiry, and it answers 400
\* otherwise (at the expiry time and after it too) without writing; the
\* password changes only in the save that follows a successful lookup, and
\* password-reset answers 200 only there.
C30_CodeValidUntilExpiry ==
  [][ /\ \A s \in Slots :
          /\ ( /\ areq[s].op \in {"verifyResetCode", "passwordReset"}
               /\ areq[s].pc = "findUser" /\ areq'[s].pc # "findUser" ) =>
               /\ users' = users
               /\ IF CodeValid(areq[s].email, areq[s].code)
                  THEN IF areq[s].op = "verifyResetCode"
                       THEN areq'[s].pc = "done" /\ areq'[s].status = 200
                       ELSE areq'[s].pc = "saveUser"
                  ELSE areq'[s].pc = "done" /\ areq'[s].status = 400
          /\ ( /\ areq[s].op = "passwordResetRequest"
               /\ areq[s].pc = "findUser" /\ areq'[s].pc = "saveUser" ) =>
               areq'[s].expiry = now + ResetTokenTtl
          /\ ( /\ areq[s].op = "passwordResetRequest"
               /\ areq[s].pc = "saveUser" /\ areq'[s].pc # "saveUser" ) =>
               users'[areq[s].doc.id].resetTokenExpiry = areq[s].expiry
          /\ ( /\ areq'[s].op = "passwordReset" /\ areq'[s].status = 200
               /\ areq[s].pc # "done" ) => areq[s].pc = "saveUser"
      /\ (\E u \in DOMAIN users : users'[u].password # users[u].password) =>
            \E s \in Slots : /\ areq[s].op = "passwordReset" /\ areq[s].pc = "saveUser"
                              /\ areq'[s].status = 200
    ]_vars

\* C30 witness: at the expiry time exactly, a verify-reset-code and a
\* password-reset that present the stored pair have both been answered 400 by
\* the lookup, and the password is the one stored at registration.
C30_Witness ==
  /\ areq[1].op = "verifyResetCode" /\ areq[1].pc = "done" /\ areq[1].status = 400
  /\ areq[2].op = "passwordReset" /\ areq[2].pc = "done" /\ areq[2].status = 400
  /\ areq[1].read /\ areq[2].read
  /\ areq[1].email = 1 /\ areq[2].email = 1
  /\ users[1].resetCode = areq[1].code /\ users[1].resetCode = areq[2].code
  /\ now = users[1].resetTokenExpiry
  /\ users[1].password = FirstPassword

\* a rating in hundredths that a mean of ratings 1 to 5 can round to
InRange(rating) == rating >= 100 /\ rating <= 500

\* C31: every stored review has an integer rating from 1 to 5: a POST or PUT
\* of a review that goes on past its validation carries such a rating (any
\* other is answered 400 at once), and every rating a recompute assigns, and
\* every restaurant rating, is 0 or lies between 1 and 5.
C31_RatingInRange ==
  /\ \A v \in DOMAIN reviews : reviews[v].rating \in 1..5
  /\ \A s \in Slots :
       /\ (req[s].op \in {"createReview", "updateReview"} /\ ~Free(s))
            => req[s].rating \in {10, 20, 30, 40, 50}
       /\ req[s].msg = "invalid rating"
            => req[s].pc = "done" /\ req[s].status = 400
       /\ req[s].setRating \in {Unset, 0} \/ InRange(req[s].setRating)
  /\ \A r \in DOMAIN restaurants :
       restaurants[r].rating = 0 \/ InRange(restaurants[r].rating)

\* C31 witness: a PUT with a rating that is no integer from 1 to 5 has been
\* answered 400 while reviews of ratings 1 and 5 are stored and their mean 3.00
\* is the restaurant's rating.
C31_Witness ==
  /\ req[1].op = "updateReview" /\ req[1].pc = "done" /\ req[1].status = 400
  /\ req[1].msg = "invalid rating"
  /\ \E v, w \in DOMAIN reviews : reviews[v].rating = 1 /\ reviews[w].rating = 5
  /\ \E r \in DOMAIN restaurants :
       restaurants[r].rating = 300 /\ restaurants[r].totalRatings = 2

\* C32: while a socket stays connected the set of its rooms only grows, and
\* the broadcast of a message reaches it for every room it has joined; a
\* socket that has disconnected is in no room, stays disconnected and gains
\* no event.
C32_RoomsOnlyGrow ==
  [][ /\ \A c \in Conns :
          /\ c \in connected' => joined[c] \subseteq joined'[c]
          /\ c \notin connected =>
               /\ joined[c] = {} /\ joined'[c] = {}
               /\ c \notin connected'
               /\ inbox'[c] = inbox[c]
      /\ \A s \in Slots :
          (task[s].kind = "send" /\ task[s].pc = "broadcast" /\ task'[s].pc # "broadcast") =>
            \A c \in connected :
              task[s].room \in joined[c] =>
                inbox'[c] = Append(inbox[c], ReceiveEvent(task[s].doc))
    ]_vars

\* C32 witness: a socket that joined general and then support is in both
\* rooms and has received a message of each, the one of general last; the other
\* socket has disconnected.
C32_Witness ==
  \E c \in connected :
    /\ lastIn.event = "send-message" /\ RoomOf(lastIn.data) = "general"
    /\ joined[c] = {"general", "support"}
    /\ \E i, j \in 1..Len(inbox[c]) :
         /\ i < j
         /\ inbox[c][i].event = "receive-message" /\ inbox[c][i].message.room = "support"
         /\ inbox[c][j].event = "receive-message" /\ inbox[c][j].message.room = "general"
    /\ connected = {c}

\* C33: with no request in flight, every stored review and every stored like
\* references a restaurant that is stored, also after a POST /reviews or a
\* POST /like has interleaved with the DELETE of the restaurant.
C33_ReferentialIntegrity ==
  Quiet =>
    /\ \A v \in DOMAIN reviews : reviews[v].restaurantId \in DOMAIN restaurants
    /\ \A l \in DOMAIN likes : likes[l].restaurantId \in DOMAIN restaurants

\* no socket handler is in flight
Settled == \A s \in Slots : TaskFree(s)

\* the ids of the messages socket c has received, in a history or live
Got(c) ==
  UNION {Ids(inbox[c][i].messages) : i \in Histories(c)}
    \cup {inbox[c][j].message.id : j \in Lives(c)}

\* C34 as stated: a socket that joined a room holding fewer than 50 messages,
\* got the history of that join and stays connected has received, once no
\* handler is in flight, every message stored for the room.
C34_NoMessageMissed ==
  \A c \in connected : \A i \in Histories(c) :
    (Settled /\ inbox[c][i].below) => MessagesOf(inbox[c][i].room) \subseteq Got(c)

\* C34 amended: a join-room puts the socket in the room in the step that
\* issues the query; a socket that stays connected and got the history of a
\* join whose query ran while the room held at most 50 messages has received,
\* once no handler is in flight, every message stored for the room, in that
\* history or as a receive-message.
C34_NoMessageMissedWhole ==
  /\ \A s \in Slots :
       (task[s].kind = "join" /\ task[s].conn \in connected)
         => task[s].room \in joined[task[s].conn]
  /\ \A c \in connected : \A i \in Histories(c) :
       (Settled /\ inbox[c][i].whole) => MessagesOf(inbox[c][i].room) \subseteq Got(c)

\* C34 witness: room general stores 50 messages; the socket got 49 of them in
\* the history of its join and the one saved after the query as a
\* receive-message only.
C34_Witness ==
  \E c \in connected : \E i \in Histories(c) :
    /\ Settled /\ inbox[c][i].whole
    /\ Cardinality(MessagesOf("general")) = HistoryLimit
    /\ Len(inbox[c][i].messages) = HistoryLimit - 1
    /\ \E m \in MessagesOf("general") :
         /\ \A k \in Histories(c) : m \notin Ids(inbox[c][k].messages)
         /\ \E j \in Lives(c) : inbox[c][j].message.id = m

\* C35: under every interleaving of POST /like requests, a request answered
\* liked:false leaves no Like of its (user, restaurant) pair in the store
\* right after its delete, and a request answered liked:true leaves one right
\* after its insert attempt.
C35_FlagAgreesWithStore ==
  [][\A s \in Slots :
       ( /\ req[s].op = "like" /\ req[s].pc \in {"deleteLike", "saveLike"}
         /\ req'[s].pc = "done" /\ req'[s].status = 200 ) =>
         (req'[s].liked <=>
            \E l \in DOMAIN likes' : /\ likes'[l].restaurantId = req[s].rid
                                      /\ likes'[l].userId = req[s].user)
    ]_vars

\* C36: the save of a password-reset-request for a stored user overwrites the
\* user's resetCode, resetToken and resetTokenExpiry with the code it drew and
\* the expiry it computed; and a verify-reset-code or password-reset lookup
\* that presents a code other than the stored one is answered 400.
C36_NewestCodeOnly ==
  [][\A s \in Slots :
       /\ ( /\ areq[s].op = "passwordResetRequest"
            /\ areq[s].pc = "saveUser" /\ areq'[s].pc # "saveUser" ) =>
            LET u == areq[s].doc.id IN
              /\ users'[u].resetCode = areq[s].newCode
              /\ users'[u].resetToken # Null
              /\ users'[u].resetTokenExpiry = areq[s].expiry
       /\ ( /\ areq[s].op \in {"verifyResetCode", "passwordReset"}
            /\ areq[s].pc = "findUser" /\ areq'[s].pc # "findUser"
            /\ \A u \in UsersByEmail(areq[s].email) : users[u].resetCode # areq[s].code ) =>
            areq'[s].pc = "done" /\ areq'[s].status = 400
    ]_vars

\* the request of a slot without its bookkeeping of consumed codes
Request(r) == [r EXCEPT !.stale = FALSE]

\* C37: no step of a verify-reset-code request changes a stored user or
\* consumes a code, so the pair it accepted is still valid right after it;
\* and a password-reset lookup that presents a user's valid pair goes on to
\* the save, which stores the new password and answers 200, however many
\* times (none included) the code has been verified since it was issued.
C37_VerifyReadOnly ==
  [][\A s \in Slots :
       /\ ( /\ areq'[s].op = "verifyResetCode"
            /\ Request(areq'[s]) # Request(areq[s]) ) =>
            /\ users' = users /\ spent' = spent /\ redeemed' = redeemed
            /\ ( areq[s].pc = "findUser" /\ areq'[s].status = 200 ) =>
                 \E u \in DOMAIN users' :
                   /\ users'[u].email = areq[s].email
                   /\ users'[u].resetCode = areq[s].code
                   /\ now' < users'[u].resetTokenExpiry
       /\ ( /\ areq[s].op = "passwordReset"
            /\ areq[s].pc = "findUser" /\ areq'[s].pc # "findUser"
            /\ CodeValid(areq[s].email, areq[s].code) ) =>
            /\ verified[Holder(areq[s].email)] \in 0..MaxVerifies
            /\ areq'[s].pc = "saveUser"
       /\ ( /\ areq[s].op = "passwordReset"
            /\ areq[s].pc = "saveUser" /\ areq'[s].pc # "saveUser" ) =>
            /\ areq'[s].pc = "done" /\ areq'[s].status = 200
            /\ users'[areq[s].doc.id].password = areq[s].newPassword
    ]_vars

\* a code has been verified twice and a password-reset with it has succeeded,
\* the request of the last verification still on record
C37_Witness ==
  \E s, t \in Slots :
    /\ areq[s].op = "verifyResetCode" /\ areq[s].pc = "done" /\ areq[s].status = 200
    /\ areq[t].op = "passwordReset" /\ areq[t].pc = "done" /\ areq[t].status = 200
    /\ areq[s].email = areq[t].email /\ areq[s].code = areq[t].code
    /\ verified[Holder(areq[t].email)] = MaxVerifies
    /\ redeemed[Holder(areq[t].email)] = 1
    /\ users[Holder(areq[t].email)].password = areq[t].newPassword

\* the reviews stored before and after a step
Kept == DOMAIN reviews \cap DOMAIN reviews'

\* C38: a stored review keeps its restaurantId, userId and userName for as
\* long as it is stored; a stored review changes only in the save of a PUT
\* /reviews/:reviewId addressed to it; that save adds and removes no review,
\* changes no other review, and keeps the stored comment when the request's
\* comment is empty or absent.
C38_ReviewFrame ==
  [][ /\ \A v \in Kept :
          /\ reviews'[v].restaurantId = reviews[v].restaurantId
          /\ reviews'[v].userId = reviews[v].userId
          /\ reviews'[v].userName = reviews[v].userName
          /\ reviews'[v] # reviews[v] =>
               \E s \in Slots : /\ req[s].op = "updateReview" /\ req[s].pc = "saveReview"
                                 /\ req[s].vid = v /\ req'[s].pc = "findReviews"
      /\ \A s \in Slots :
          ( /\ req[s].op = "updateReview"
            /\ req[s].pc = "saveReview" /\ req'[s].pc # "saveReview" ) =>
            /\ DOMAIN reviews' = DOMAIN reviews
            /\ \A v \in DOMAIN reviews \ {req[s].vid} : reviews'[v] = reviews[v]
            /\ ( req[s].vid \in DOMAIN reviews /\ req[s].comment = Absent ) =>
                 reviews'[req[s].vid].comment = reviews[req[s].vid].comment
    ]_vars

\* the save of an edit without a comment or an image has just run: the review
\* it addressed has the new rating of the edit and still has its comment and
\* its image, and another review is stored beside it
C38_Witness ==
  \E s \in Slots :
    /\ req[s].op = "updateReview" /\ req[s].pc = "findReviews"
    /\ req[s].comment = Absent /\ req[s].image = Absent
    /\ req[s].vid \in DOMAIN reviews
    /\ req[s].rev.rating # req[s].rating \div 10
    /\ reviews[req[s].vid].rating = req[s].rating \div 10
    /\ reviews[req[s].vid].comment = 10
    /\ reviews[req[s].vid].image = 1
    /\ Cardinality(DOMAIN reviews) >= 2

\* the answer of a failed login
Refused(r) == r.status = 401 /\ r.body = ErrorBody("Invalid credentials")

\* C39: a POST /login whose well-formed email names no user is answered at the
\* lookup, and one whose email names a user but whose password does not match
\* is answered at the comparison, both with status 401 and the body {error:
\* 'Invalid credentials'} and with no user changed; so any two such answers
\* have the same status and body.
C39_FailedLoginUniform ==
  /\ [][\A s \in Slots :
          /\ ( /\ areq[s].op = "login" /\ areq[s].pc = "findUser" /\ areq'[s].pc # "findUser"
               /\ UsersByEmail(areq[s].email) = {} ) =>
               areq'[s].pc = "done" /\ Refused(areq'[s]) /\ users' = users
          /\ ( /\ areq[s].op = "login" /\ areq[s].pc = "comparePassword"
               /\ areq'[s].pc # "comparePassword"
               /\ users[areq[s].doc.id].password # areq[s].newPassword ) =>
               areq'[s].pc = "done" /\ Refused(areq'[s]) /\ users' = users
          /\ ( areq'[s].op = "login" /\ Request(areq'[s]) # Request(areq[s]) ) =>
               users' = users
     ]_vars
  /\ [](\A s, t \in Slots :
          ( /\ areq[s].op = "login" /\ areq[s].pc = "done" /\ areq[s].read
            /\ areq[t].op = "login" /\ areq[t].pc = "done" /\ areq[t].read
            /\ Holder(areq[s].email) = 0
            /\ Holder(areq[t].email) # 0
            /\ users[Holder(areq[t].email)].password # areq[t].newPassword ) =>
            /\ areq[s].status = areq[t].status
            /\ areq[s].body = areq[t].body)

\* a login with the free email and a login of user 1 with a wrong password have
\* both queried the store and been answered 401 'Invalid credentials'
C39_Witness ==
  /\ areq[1].op = "login" /\ areq[1].pc = "done" /\ areq[1].read
  /\ areq[1].email = 2 /\ Holder(2) = 0
  /\ areq[2].op = "login" /\ areq[2].pc = "done" /\ areq[2].read
  /\ areq[2].email = 1 /\ areq[2].newPassword = StrongPassword
  /\ users[1].password = FirstPassword
  /\ Refused(areq[1]) /\ Refused(areq[2])

====
